---- MODULE Spec2Model ----
(***************************************************************************)
(* The connection supervisor of the bot server: startBot, the per-socket   *)
(* close/open handlers installed by setupAutoRestart, the creds.update     *)
(* handler, and the credential store functions of lib/database.js.         *)
(*                                                                         *)
(* Node runs one callback at a time; a callback runs until its next await. *)
(* Every action below is one such run: from an entry point or a resumed    *)
(* await to the next await or return.                                      *)
(***************************************************************************)
EXTENDS Integers, Sequences, FiniteSets, TLC

\* Number of startBot invocations and sockets that exist at the same time.
\* An invocation that has returned without a socket, and a socket that
\* nothing can reach any more, give their slot back.
MaxStarts == 2

\* Number of disconnect requests that are running at the same time.
MaxStops == 1

\* Number of entries of config.AUTO_FOLLOW_CHANNELS and of
\* config.AUTO_JOIN_GROUPS at most.
MaxChannels == 1
MaxGroups == 1

\* const maxRestartAttempts = 3 in setupAutoRestart.
maxRestartAttempts == 3

----------------------------------------------------------------------------
(* Inputs *)

\* Raw phone numbers as character sequences, as they arrive in a request.
RawNumbers == { <<"1">>, <<"+", "1">>, <<"2">> }

Digits == {"0", "1", "2", "3", "4", "5", "6", "7", "8", "9"}

IsDigit(c) == c \in Digits

\* number.replace(/[^0-9]/g, '')
Sanitize(number) == SelectSeq(number, IsDigit)

Ids == { Sanitize(r) : r \in RawNumbers }

NoUser == 0
UserIds == {NoUser, 1}

\* lastDisconnect?.error?.output?.statusCode; NoStatus is undefined.
NoStatus == 0
StatusCodes == {NoStatus, 401, 408, 428, 500}

\* lastDisconnect?.error?.message as a sequence of words; NoMsg is undefined.
NoMsg == << "undefined" >>
Messages == { NoMsg,
              << "Connection", "Closed" >>,
              << "Stream", "Errored", "401" >>,
              << "QR", "refs", "attempts", "ended" >>,
              << "QR", "refs", "attempts" >>,
              << "401", "QR", "refs", "attempts", "ended" >> }

\* Every status with every message.
AllCauses == StatusCodes \X Messages

\* The causes the protocol client closes with in the behaviours checked:
\* logged out, pairing timed out, connection lost, and a cause with nothing
\* set; with the status alone, the message alone, and both at odds.
Causes == { << 401, NoMsg >>,
            << NoStatus, << "Stream", "Errored", "401" >> >>,
            << 408, NoMsg >>,
            << NoStatus, << "QR", "refs", "attempts", "ended" >> >>,
            << 408, << "Stream", "Errored", "401" >> >>,
            << 428, << "Connection", "Closed" >> >>,
            << NoStatus, NoMsg >> }

\* Logged out, pairing timed out, connection lost: as the client reports them.
PlainCauses == { << 401, NoMsg >>, << 408, NoMsg >>,
                 << 428, << "Connection", "Closed" >> >> }

\* String.prototype.includes on word sequences.
Includes(msg, needle) ==
    \E k \in 0..(Len(msg) - Len(needle)) :
        \A n \in 1..Len(needle) : msg[k + n] = needle[n]

\* errorMessage?.includes(x): undefined when the message is undefined.
MsgIncludes(msg, needle) == msg # NoMsg /\ Includes(msg, needle)

\* The split with the isNormalError test made before the 401 test.
Classify_NormalFirst(statusCode, errorMessage) ==
    IF statusCode = 408
       \/ MsgIncludes(errorMessage, << "QR", "refs", "attempts", "ended" >>)
    THEN "ExpectedTransient"
    ELSE IF statusCode = 401 \/ MsgIncludes(errorMessage, << "401" >>)
         THEN "PermanentAuthFailure"
         ELSE "RetryableTransient"

\* The three-way split made by the close handler (lines 202 and 212).
Classify(statusCode, errorMessage) ==
    IF statusCode = 401 \/ MsgIncludes(errorMessage, << "401" >>)
    THEN "PermanentAuthFailure"
    ELSE IF statusCode = 408
            \/ MsgIncludes(errorMessage, << "QR", "refs", "attempts", "ended" >>)
         THEN "ExpectedTransient"
         ELSE "RetryableTransient"

----------------------------------------------------------------------------
(* State *)

VARIABLES
    calls,               \* the startBot invocations (their closures), by slot
    socks,               \* the client made by invocation i, if any
    activeSockets,       \* Map number -> socket (0: no entry)
    socketCreationTime,  \* key set of the Map number -> Date.now()
    lock,                \* global['connecting_' + number]
    Session,             \* the Session collection: number -> record
    ActiveNumber,        \* the ActiveNumber collection (is_active numbers)
    log,                 \* how the last requests ended
    consecutiveFailures, \* per number: retryable closes since the last open
    stops,               \* the disconnect requests (their closures), by slot
    reconnect,           \* autoReconnect (its closure)
    env                  \* what the environment sends and what is observed

vars == << calls, socks, activeSockets, socketCreationTime, lock,
           Session, ActiveNumber, log, consecutiveFailures, stops, reconnect,
           env >>

Slots == 1..MaxStarts
NoSocket == 0
NoSession == [present |-> FALSE, user_id |-> NoUser]

IdleCall == [pc |-> "idle", number |-> << >>, userId |-> NoUser,
             existingSession |-> FALSE]

\* The open handler of lines 315-353 when it is not running: hook is the
\* hook it is in, item the entry of the list it is at, and at the await it
\* is suspended at (the call of the client, or the delay after it).
NoHook == [hook |-> "idle", item |-> 0, at |-> "idle"]

NoSock == [made |-> FALSE, listeners |-> FALSE, ws |-> "none",
           restartAttempts |-> 0, h401 |-> "idle", restart |-> "idle",
           creds |-> "idle", held |-> 0,
           usePairingCode |-> FALSE, pairing |-> "idle", hooks |-> NoHook]

\* A disconnect request or a delete request of the admin: pc is the await it
\* is suspended at, socket the const socket of line 670 (861), sessions the
\* sessions adminDeleteUser has still to delete.
StopSlots == 1..MaxStops
IdleStop == [pc |-> "idle", number |-> << >>, user |-> NoUser,
             socket |-> NoSocket, sessions |-> << >>]

\* autoReconnect before its timer fires (line 898). numbers is the const
\* numbers of line 884 and next the position of the for loop in it; call is
\* the startBot the loop awaits, started and skipped the numbers it has
\* called startBot for and passed over.
IdleReconnect == [pc |-> "timer", numbers |-> << >>, next |-> 1,
                  call |-> NoSocket, started |-> << >>, skipped |-> << >>]

\* The program after its construction (lines 71-72; no lock flag is set), in
\* an environment e, with the database an earlier run has left: a Session
\* record for the numbers in stored, an ActiveNumber record for those in
\* active. Start is the program on a fresh database.
\*   e.numbers   the raw numbers requests carry
\*   e.users     the user ids requests carry
\*   e.causes    the causes sockets close with
\*   e.store     the answers of the store: TRUE it succeeds, FALSE it throws
\*   e.logged    the outcomes of requests that log records
\*   e.logCap    how many of the last of them are kept in log
\*   e.failures  whether consecutiveFailures is kept
\*   e.serial    whether a request waits until nothing is left of the last
\*   e.hooks     whether the post-connect hooks and the pairing timer are
\*               followed step by step
\*   e.channels  the length of config.AUTO_FOLLOW_CHANNELS
\*   e.groups    the length of config.AUTO_JOIN_GROUPS
Boot(e, stored, active) ==
    /\ env = e
    /\ calls = [i \in Slots |-> IdleCall]
    /\ socks = [i \in Slots |-> NoSock]
    /\ activeSockets = [n \in Ids |-> NoSocket]
    /\ socketCreationTime = {}
    /\ lock = [n \in Ids |-> FALSE]
    /\ Session = [n \in Ids |-> IF n \in stored
                                 THEN [present |-> TRUE, user_id |-> NoUser]
                                 ELSE NoSession]
    /\ ActiveNumber = active
    /\ log = << >>
    /\ consecutiveFailures = [n \in Ids |-> 0]
    /\ stops = [k \in StopSlots |-> IdleStop]
    /\ reconnect = IdleReconnect

Start(e) == Boot(e, {}, {})

\* One tenant, whose number arrives in two raw forms; nothing is observed.
OneTenant == [numbers |-> { r \in RawNumbers : Sanitize(r) = << "1" >> },
              users |-> {NoUser}, causes |-> Causes, store |-> BOOLEAN,
              logged |-> {}, logCap |-> 0,
              failures |-> FALSE, serial |-> FALSE,
              hooks |-> FALSE, channels |-> 0, groups |-> 0,
             running |-> TRUE]

Init == Start(OneTenant)

\* The same, with the last start that threw kept.
InitLog == Start([OneTenant EXCEPT !.logged = {"Failed"}, !.logCap = 1])

\* One tenant, one cause of each class and a store that never throws, with
\* the last startBot that found the number connected kept.
InitSkip == Start([OneTenant EXCEPT !.causes = PlainCauses, !.store = {TRUE},
                                    !.logged = {"AlreadyConnected"}, !.logCap = 1])

\* The same, with the retryable closes since the last open counted.
InitRetry == Start([OneTenant EXCEPT !.failures = TRUE, !.serial = TRUE])

\* Every tenant and user, the last two outcomes kept.
Outcomes == {"Started", "AlreadyConnected", "already_connected", "InProgress",
             "Failed"}

InitPair == Start([numbers |-> RawNumbers, users |-> UserIds,
                   causes |-> Causes, store |-> BOOLEAN,
                   logged |-> Outcomes, logCap |-> 2,
                   failures |-> FALSE, serial |-> FALSE,
                   hooks |-> FALSE, channels |-> 0, groups |-> 0,
             running |-> TRUE])

\* One tenant whose sockets all close with the same cause, any status with
\* any message; requests one at a time, a store that never throws.
InitClassify ==
    \E c \in AllCauses :
        Start([OneTenant EXCEPT !.causes = {c}, !.store = {TRUE}, !.serial = TRUE])

\* Invocation i has set the lock flag and has not returned.
InFlight(i) == calls[i].pc \in {"load", "auth"}

\* A socket without listeners, with its transport closed, no handler and no
\* timer of it still running and no request holding it: nothing refers to
\* it or to its closure any more.
Dead(s) == /\ s.made /\ ~s.listeners /\ s.ws = "closed"
           /\ s.h401 = "idle" /\ s.restart = "idle" /\ s.creds = "idle"
           /\ s.held = 0
           /\ s.pairing = "idle" /\ s.hooks = NoHook

CollectSocks(s) == [i \in Slots |-> IF Dead(s[i]) THEN NoSock ELSE s[i]]

CollectCalls(c, s) == [i \in Slots |-> IF Dead(s[i]) THEN IdleCall ELSE c[i]]

----------------------------------------------------------------------------
(* lib/database.js *)

\* getSessionFromMongoDB: the credentials, or null when there is no record
\* or when the query throws (the catch returns null).
getSessionFromMongoDB(number, dbOk) ==
    dbOk /\ Session[Sanitize(number)].present

\* saveSessionToMongoDB: upsert of {credentials, user_id}; nothing on error.
saveSessionToMongoDB(number, userId, dbOk) ==
    IF dbOk
    THEN [Session EXCEPT ![Sanitize(number)] = [present |-> TRUE, user_id |-> userId]]
    ELSE Session

\* deleteSessionFromMongoDB: Session.deleteOne, UserConfig.deleteOne,
\* ActiveNumber.deleteOne in this order; a throw skips the rest.
\* outcome: "ok", "none" (the first delete throws), "sessionOnly" (a later one).
DeleteOutcomes == {"ok", "none", "sessionOnly"}

\* The outcomes when the store answers as in answers (TRUE: it succeeds).
DeleteOutcomesIn(answers) ==
    { o \in DeleteOutcomes : o = "ok" => TRUE \in answers } \cap
    { o \in DeleteOutcomes : o # "ok" => FALSE \in answers }

deleteSessionFromMongoDB_Session(number, outcome) ==
    IF outcome = "none" THEN Session
    ELSE [Session EXCEPT ![Sanitize(number)] = NoSession]

deleteSessionFromMongoDB_Active(number, outcome) ==
    IF outcome = "ok" THEN ActiveNumber \ {Sanitize(number)} ELSE ActiveNumber

\* adminDeleteSession: the same deletes, with the number as it is given;
\* the records are kept under digits, so another form matches none.
adminDeleteSession_Session(number, outcome) ==
    IF outcome = "none" \/ number \notin Ids THEN Session
    ELSE [Session EXCEPT ![number] = NoSession]

adminDeleteSession_Active(number, outcome) ==
    IF outcome = "ok" THEN ActiveNumber \ {number} ELSE ActiveNumber

\* addNumberToMongoDB / removeNumberFromMongoDB
addNumberToMongoDB(number, dbOk) ==
    IF dbOk THEN ActiveNumber \cup {Sanitize(number)} ELSE ActiveNumber

removeNumberFromMongoDB(number, dbOk) ==
    IF dbOk THEN ActiveNumber \ {Sanitize(number)} ELSE ActiveNumber

----------------------------------------------------------------------------
(* startBot *)

\* isNumberAlreadyConnected without line 86: activeSockets.has(number).
isNumberAlreadyConnected_Raw(number) ==
    number \in DOMAIN activeSockets /\ activeSockets[number] # NoSocket

\* isNumberAlreadyConnected
isNumberAlreadyConnected(number) == activeSockets[Sanitize(number)] # NoSocket

\* The finally block: if (connectionLockKey) global[connectionLockKey] = false
Finally(lk, number, connectionLockKey) ==
    IF connectionLockKey THEN [lk EXCEPT ![number] = FALSE] ELSE lk

\* How a request ended: the answer already_connected of the code route or
\* success of the disconnect route, or the way startBot returned (its
\* console lines of 267, 273 and 504, or the client registered); and the
\* console lines of saveSessionToMongoDB. The last env.logCap of them are
\* kept.
Log(number, result) ==
    LET all == Append(log, [number |-> number, result |-> result]) IN
    IF result \notin env.logged THEN log
    ELSE IF Len(all) <= env.logCap THEN all
    ELSE SubSeq(all, Len(all) - env.logCap + 1, Len(all))

\* startBot from its entry to the first await (lines 259-278), called with
\* the invocations c; connected and locked are the outcomes of the tests of
\* lines 266 and 272. The caller says what happens to socks and
\* consecutiveFailures.
StartEnterAs(c, i, number, userId, connected, locked) ==
    LET sanitizedNumber == Sanitize(number) IN
    /\ c[i].pc = "idle" /\ \A j \in Slots : j < i => c[j].pc # "idle"
    /\ IF connected
       THEN \* return; connectionLockKey is still undefined
            /\ calls' = c
            /\ lock' = Finally(lock, sanitizedNumber, FALSE)
            /\ log' = Log(sanitizedNumber, "AlreadyConnected")
       ELSE IF locked
       THEN \* return; connectionLockKey was assigned on line 271
            /\ calls' = c
            /\ lock' = Finally(lock, sanitizedNumber, TRUE)
            /\ log' = Log(sanitizedNumber, "InProgress")
       ELSE /\ calls' = [c EXCEPT ![i] =
                  [IdleCall EXCEPT !.pc = "load", !.number = sanitizedNumber,
                                   !.userId = userId]]
            /\ lock' = [lock EXCEPT ![sanitizedNumber] = TRUE]
            /\ log' = log
    /\ UNCHANGED << activeSockets, socketCreationTime, Session, ActiveNumber >>

\* startBot without the test of the lock flag.
StartEnter_NoLockTest(c, i, number, userId) ==
    StartEnterAs(c, i, number, userId, isNumberAlreadyConnected(number), FALSE)

\* startBot without the test of the registry.
StartEnter_NoConnectedTest(c, i, number, userId) ==
    StartEnterAs(c, i, number, userId, FALSE, lock[Sanitize(number)])

\* startBot with one lock flag for all the numbers.
StartEnter_OneLock(c, i, number, userId) ==
    StartEnterAs(c, i, number, userId, isNumberAlreadyConnected(number),
                 \E n \in Ids : lock[n])

StartEnter(c, i, number, userId) ==
    StartEnterAs(c, i, number, userId,
                 isNumberAlreadyConnected(number), lock[Sanitize(number)])

\* An explicit request for number n ends its run of failures.
Requested(n) ==
    IF env.failures THEN [consecutiveFailures EXCEPT ![n] = 0]
    ELSE consecutiveFailures

\* GET /code (lines 611-625): the route answers already_connected itself,
\* and otherwise runs startBot up to its first await in the same callback.
HttpCode(i, number, userId) ==
    IF isNumberAlreadyConnected(number)
    THEN /\ i = 1      \* the answer takes no slot
         /\ log' = Log(Sanitize(number), "already_connected")
         /\ UNCHANGED << calls, socks, activeSockets, socketCreationTime, lock,
                         Session, ActiveNumber, consecutiveFailures >>
    ELSE /\ StartEnter(calls, i, number, userId)
         /\ consecutiveFailures' = Requested(Sanitize(number))
         /\ UNCHANGED socks

\* getSessionFromMongoDB has answered: lines 278-287, up to the await of
\* useMultiFileAuthState. The file operations may throw.
StartLoaded(i, dbOk, fsOk) ==
    LET n == calls[i].number IN
    /\ calls[i].pc = "load"
    /\ IF fsOk
       THEN /\ calls' = [calls EXCEPT ![i] =
                  [@ EXCEPT !.pc = "auth",
                            !.existingSession = getSessionFromMongoDB(n, dbOk)]]
            /\ UNCHANGED << lock, log >>
       ELSE /\ calls' = [calls EXCEPT ![i] = IdleCall]
            /\ lock' = Finally(lock, n, TRUE)
            /\ log' = Log(n, "Failed")
    /\ UNCHANGED << socks, activeSockets, socketCreationTime, Session,
                    ActiveNumber, consecutiveFailures >>

\* useMultiFileAuthState has answered: lines 287-508. ok is FALSE when it
\* rejects or makeWASocket throws; release is whether the lock flag is
\* cleared on the way out; newSession is the test of line 484, on which the
\* timer of the pairing code is set.
StartAuthAs(i, ok, release, newSession) ==
    LET n == calls[i].number IN
    /\ calls[i].pc = "auth"
    /\ IF ok
       THEN /\ socketCreationTime' = socketCreationTime \cup {n}
            /\ activeSockets' = [activeSockets EXCEPT ![n] = i]
            /\ socks' = [socks EXCEPT ![i] =
                  [NoSock EXCEPT !.made = TRUE, !.listeners = TRUE,
                                 !.ws = "connecting",
                                 !.usePairingCode = ~calls[i].existingSession,
                                 !.pairing = IF env.hooks /\ newSession
                                             THEN "timer" ELSE "idle"]]
            /\ calls' = [calls EXCEPT ![i] = [@ EXCEPT !.pc = "done"]]
            /\ log' = Log(n, "Started")
       ELSE /\ calls' = [calls EXCEPT ![i] = IdleCall]
            /\ log' = Log(n, "Failed")
            /\ UNCHANGED << socks, activeSockets, socketCreationTime >>
    /\ lock' = Finally(lock, n, release)
    /\ UNCHANGED << Session, ActiveNumber, consecutiveFailures >>

\* The flag cleared at the end of the try block instead of in a finally.
StartAuth_ReleaseInTry(i, ok) == StartAuthAs(i, ok, ok, ~calls[i].existingSession)

\* The timer of the pairing code set whatever the load returned.
StartAuth_AlwaysPairs(i, ok) == StartAuthAs(i, ok, TRUE, TRUE)

StartAuth(i, ok) == StartAuthAs(i, ok, TRUE, ~calls[i].existingSession)

----------------------------------------------------------------------------
(* The handlers of a socket *)

\* consecutiveFailures after a retryable close / an open of number n.
Failed(n) ==
    IF env.failures /\ consecutiveFailures[n] <= maxRestartAttempts
    THEN [consecutiveFailures EXCEPT ![n] = @ + 1]
    ELSE consecutiveFailures

Opened(n) ==
    IF env.failures THEN [consecutiveFailures EXCEPT ![n] = 0]
    ELSE consecutiveFailures

\* The socket record after the step, and the slots given back.
SockStep(i, s) ==
    /\ socks' = CollectSocks([socks EXCEPT ![i] = s])
    /\ calls' = CollectCalls(calls, [socks EXCEPT ![i] = s])

\* connection.update with connection === 'close' (lines 198-231), up to the
\* first await of the branch taken; class is the branch and mayRestart the
\* test of line 215. The transport is closed when the event is emitted; the
\* event is also that of a transport the program itself is closing.
ConnCloseAs(i, class, mayRestart) ==
    LET n == calls[i].number IN
    /\ socks[i].listeners
    /\ socks[i].ws \in {"connecting", "open", "closing"}
    /\ IF class = "PermanentAuthFailure"
       THEN /\ activeSockets' = [activeSockets EXCEPT ![n] = NoSocket]
            /\ socketCreationTime' = socketCreationTime \ {n}
            /\ SockStep(i, [socks[i] EXCEPT !.ws = "closed", !.h401 = "delSession"])
            /\ UNCHANGED consecutiveFailures
       ELSE IF class = "ExpectedTransient"
       THEN /\ SockStep(i, [socks[i] EXCEPT !.ws = "closed"])
            /\ UNCHANGED << activeSockets, socketCreationTime, consecutiveFailures >>
       ELSE /\ consecutiveFailures' = Failed(n)
            /\ IF mayRestart
               THEN /\ activeSockets' = [activeSockets EXCEPT ![n] = NoSocket]
                    /\ socketCreationTime' = socketCreationTime \ {n}
                    /\ SockStep(i, [socks[i] EXCEPT !.ws = "closed",
                                                    !.restartAttempts = @ + 1,
                                                    !.listeners = FALSE,
                                                    !.restart = "delay"])
               ELSE /\ SockStep(i, [socks[i] EXCEPT !.ws = "closed"])
                    /\ UNCHANGED << activeSockets, socketCreationTime >>
    /\ UNCHANGED << lock, Session, ActiveNumber, log >>

\* The handler without the 401 test of line 202.
ConnClose_No401Test(i, statusCode, errorMessage) ==
    ConnCloseAs(i, IF Classify(statusCode, errorMessage) = "PermanentAuthFailure"
                   THEN "RetryableTransient"
                   ELSE Classify(statusCode, errorMessage),
                socks[i].restartAttempts < maxRestartAttempts)

\* The handler without the isNormalError test of line 213.
ConnClose_NoNormalTest(i, statusCode, errorMessage) ==
    ConnCloseAs(i, IF Classify(statusCode, errorMessage) = "ExpectedTransient"
                   THEN "RetryableTransient"
                   ELSE Classify(statusCode, errorMessage),
                socks[i].restartAttempts < maxRestartAttempts)

\* The handler with the comparison of line 215 turned round.
ConnClose_GuardInverted(i, statusCode, errorMessage) ==
    ConnCloseAs(i, Classify(statusCode, errorMessage),
                socks[i].restartAttempts > maxRestartAttempts)

\* The handler with the two deletes of lines 218-219 left out of the restart
\* branch.
ConnClose_RestartKeepsEntry(i, statusCode, errorMessage) ==
    IF /\ Classify(statusCode, errorMessage) = "RetryableTransient"
       /\ socks[i].restartAttempts < maxRestartAttempts
    THEN /\ socks[i].listeners
         /\ socks[i].ws \in {"connecting", "open", "closing"}
         /\ consecutiveFailures' = Failed(calls[i].number)
         /\ SockStep(i, [socks[i] EXCEPT !.ws = "closed",
                                         !.restartAttempts = @ + 1,
                                         !.listeners = FALSE,
                                         !.restart = "delay"])
         /\ UNCHANGED << activeSockets, socketCreationTime, lock, Session,
                         ActiveNumber, log >>
    ELSE ConnCloseAs(i, Classify(statusCode, errorMessage),
                     socks[i].restartAttempts < maxRestartAttempts)

\* The handler with removeAllListeners of line 221 left out of the restart
\* branch, on a client that reports every failed reconnection of its own as
\* a close.
ConnClose_RestartKeepsListening(i, statusCode, errorMessage) ==
    IF /\ Classify(statusCode, errorMessage) = "RetryableTransient"
       /\ socks[i].restartAttempts < maxRestartAttempts
    THEN LET n == calls[i].number IN
         /\ socks[i].listeners
         /\ socks[i].ws \in {"connecting", "open", "closing"}
         /\ consecutiveFailures' = Failed(n)
         /\ activeSockets' = [activeSockets EXCEPT ![n] = NoSocket]
         /\ socketCreationTime' = socketCreationTime \ {n}
         /\ SockStep(i, [socks[i] EXCEPT !.restartAttempts = @ + 1,
                                         !.restart = "delay"])
         /\ UNCHANGED << lock, Session, ActiveNumber, log >>
    ELSE ConnCloseAs(i, Classify(statusCode, errorMessage),
                     socks[i].restartAttempts < maxRestartAttempts)

ConnClose(i, statusCode, errorMessage) ==
    ConnCloseAs(i, Classify(statusCode, errorMessage),
                socks[i].restartAttempts < maxRestartAttempts)

\* The 401 branch after await deleteSessionFromMongoDB (line 206).
H401Delete(i, outcome) ==
    LET n == calls[i].number IN
    /\ socks[i].h401 = "delSession"
    /\ Session' = deleteSessionFromMongoDB_Session(n, outcome)
    /\ ActiveNumber' = deleteSessionFromMongoDB_Active(n, outcome)
    /\ SockStep(i, [socks[i] EXCEPT !.h401 = "remNumber"])
    /\ UNCHANGED << activeSockets, socketCreationTime, lock, log,
                    consecutiveFailures >>

\* The 401 branch after await removeNumberFromMongoDB (lines 207-209).
H401Remove(i, dbOk) ==
    LET n == calls[i].number IN
    /\ socks[i].h401 = "remNumber"
    /\ ActiveNumber' = removeNumberFromMongoDB(n, dbOk)
    /\ SockStep(i, [socks[i] EXCEPT !.h401 = "idle", !.listeners = FALSE])
    /\ UNCHANGED << activeSockets, socketCreationTime, lock, Session, log,
                    consecutiveFailures >>

\* The restart branch after await delay(10000): startBot(number) (line 226).
\* The handler then only logs.
RestartFire(i, j) ==
    LET s == [socks EXCEPT ![i] = [@ EXCEPT !.restart = "idle"]] IN
    /\ socks[i].restart = "delay"
    /\ StartEnter(CollectCalls(calls, s), j, calls[i].number, NoUser)
    /\ socks' = CollectSocks(s)
    /\ UNCHANGED consecutiveFailures

\* Where the open handler suspends next when it comes to entry k of the
\* list of hook h: at the call for that entry, at the first call of
\* autoJoinGroups when autoFollowChannels is through, at the welcome message
\* when both are through and the session is new; otherwise it returns.
\* welcome is the test of line 345.
HookAtAs(h, k, welcome) ==
    IF h = "follow" /\ k <= env.channels
    THEN [hook |-> "follow", item |-> k, at |-> "call"]
    ELSE IF h = "follow" /\ env.groups >= 1
    THEN [hook |-> "join", item |-> 1, at |-> "call"]
    ELSE IF h = "join" /\ k <= env.groups
    THEN [hook |-> "join", item |-> k, at |-> "call"]
    ELSE IF welcome
    THEN [hook |-> "welcome", item |-> 0, at |-> "call"]
    ELSE NoHook

\* The welcome message sent whatever the load returned.
HookAt_AlwaysWelcome(h, k, existingSession) == HookAtAs(h, k, TRUE)

HookAt(h, k, existingSession) == HookAtAs(h, k, ~existingSession)

\* connection.update with connection === 'open': both listeners run, the
\* counter is reset (line 236) and addNumberToMongoDB is awaited (line 317);
\* the handler of startBot then goes on to autoFollowChannels (line 320).
ConnOpen(i, dbOk) ==
    LET n == calls[i].number IN
    /\ socks[i].listeners
    /\ socks[i].ws = "connecting"
    /\ SockStep(i, [socks[i] EXCEPT
                       !.ws = "open", !.restartAttempts = 0,
                       !.hooks = IF env.hooks
                                 THEN HookAt("follow", 1, calls[i].existingSession)
                                 ELSE NoHook])
    /\ ActiveNumber' = addNumberToMongoDB(n, dbOk)
    /\ consecutiveFailures' = Opened(n)
    /\ UNCHANGED << activeSockets, socketCreationTime, lock, Session, log >>

\* creds.update: the handler starts and awaits saveCreds() (line 357).
CredsUpdate(i) ==
    /\ socks[i].listeners
    /\ socks[i].ws \in {"connecting", "open"}
    /\ socks[i].creds = "idle"
    /\ SockStep(i, [socks[i] EXCEPT !.creds = "saving"])
    /\ UNCHANGED << activeSockets, socketCreationTime, lock, Session,
                    ActiveNumber, log, consecutiveFailures >>

\* creds.update after saveCreds(): saveSessionToMongoDB (line 360), which
\* logs how it ended; closeOnError is whether the handler ends the socket
\* when the save has failed.
CredsSaveAs(i, dbOk, closeOnError) ==
    LET n == calls[i].number IN
    /\ socks[i].creds = "saving"
    /\ Session' = saveSessionToMongoDB(n, calls[i].userId, dbOk)
    /\ log' = Log(n, IF dbOk THEN "Session saved" ELSE "Error saving session")
    /\ IF closeOnError /\ ~dbOk
       THEN /\ SockStep(i, [socks[i] EXCEPT !.creds = "idle", !.ws = "closed",
                                            !.listeners = FALSE])
            /\ activeSockets' = [activeSockets EXCEPT ![n] = NoSocket]
            /\ socketCreationTime' = socketCreationTime \ {n}
       ELSE /\ SockStep(i, [socks[i] EXCEPT !.creds = "idle"])
            /\ UNCHANGED << activeSockets, socketCreationTime >>
    /\ UNCHANGED << lock, ActiveNumber, consecutiveFailures >>

\* The handler ending the socket when the save has failed.
CredsSave_CloseOnError(i, dbOk) == CredsSaveAs(i, dbOk, TRUE)

CredsSave(i, dbOk) == CredsSaveAs(i, dbOk, FALSE)

\* The try of an entry of a hook list (lines 109-115, 125-134) after the
\* call of the client has answered: the delay is awaited when it succeeded,
\* the catch logs and the loop goes on when it threw (abort: the hooks end
\* there). The call succeeds only on an open transport.
HookCallAs(i, h, ok, abort) ==
    LET at == socks[i].hooks IN
    /\ at.hook = h /\ at.at = "call"
    /\ ok => socks[i].ws = "open"
    /\ SockStep(i, [socks[i] EXCEPT !.hooks =
          IF ok THEN [at EXCEPT !.at = "delay"]
          ELSE IF abort THEN NoHook
          ELSE HookAt(h, at.item + 1, calls[i].existingSession)])
    /\ UNCHANGED << activeSockets, socketCreationTime, lock, Session,
                    ActiveNumber, log, consecutiveFailures >>

\* The delay after an entry (lines 112, 131) has elapsed: the loop goes on.
HookDelay(i, h) ==
    LET at == socks[i].hooks IN
    /\ at.hook = h /\ at.at = "delay"
    /\ SockStep(i, [socks[i] EXCEPT !.hooks =
          HookAt(h, at.item + 1, calls[i].existingSession)])
    /\ UNCHANGED << activeSockets, socketCreationTime, lock, Session,
                    ActiveNumber, log, consecutiveFailures >>

\* A failed entry ending the hooks.
autoFollowChannels_Abort(i, ok) == HookCallAs(i, "follow", ok, TRUE)

\* autoFollowChannels: conn.newsletterFollow has answered.
autoFollowChannels(i, ok) == HookCallAs(i, "follow", ok, FALSE)

\* autoJoinGroups: conn.groupAcceptInvite has answered.
autoJoinGroups(i, ok) == HookCallAs(i, "join", ok, FALSE)

\* The welcome message (lines 345-352): conn.sendMessage has answered; the
\* handler returns, or rejects when the send threw. sent is whether the
\* message went out.
WelcomeAs(i, ok, sent) ==
    /\ socks[i].hooks.hook = "welcome"
    /\ ok => socks[i].ws = "open"
    /\ SockStep(i, [socks[i] EXCEPT !.hooks = NoHook])
    /\ log' = IF sent THEN Log(calls[i].number, "welcome") ELSE log
    /\ UNCHANGED << activeSockets, socketCreationTime, lock, Session,
                    ActiveNumber, consecutiveFailures >>

Welcome(i, ok) == WelcomeAs(i, ok, ok)

\* The timer of line 485 fires: conn.requestPairingCode is awaited.
PairTimer(i) ==
    /\ socks[i].pairing = "timer"
    /\ SockStep(i, [socks[i] EXCEPT !.pairing = "request"])
    /\ UNCHANGED << activeSockets, socketCreationTime, lock, Session,
                    ActiveNumber, log, consecutiveFailures >>

\* conn.requestPairingCode has answered (lines 487-499): the code is logged
\* and, when config.OWNER_NUMBER is set (owner), sent to the owner; the
\* catch logs when it threw.
PairCode(i, ok, owner) ==
    /\ socks[i].pairing = "request"
    /\ ok => socks[i].ws \in {"connecting", "open"}
    /\ SockStep(i, [socks[i] EXCEPT !.pairing =
          IF ok /\ owner THEN "send" ELSE "idle"])
    /\ log' = Log(calls[i].number, IF ok THEN "Pairing Code" ELSE "Pairing error")
    /\ UNCHANGED << activeSockets, socketCreationTime, lock, Session,
                    ActiveNumber, consecutiveFailures >>

\* conn.sendMessage to the owner has answered (lines 491-497).
PairSent(i, ok) ==
    /\ socks[i].pairing = "send"
    /\ SockStep(i, [socks[i] EXCEPT !.pairing = "idle"])
    /\ log' = IF ok THEN log ELSE Log(calls[i].number, "Pairing error")
    /\ UNCHANGED << activeSockets, socketCreationTime, lock, Session,
                    ActiveNumber, consecutiveFailures >>

----------------------------------------------------------------------------
(* POST /api/bot/:number/disconnect *)

\* getUserWhatsAppNumbers: the numbers of the Session records of the user,
\* none when the query throws (the catch returns []).
getUserWhatsAppNumbers(userId, dbOk) ==
    IF dbOk THEN { n \in Ids : Session[n].present /\ Session[n].user_id = userId }
    ELSE {}

\* The request of an authenticated user arrives (lines 658-663): the number
\* is sanitized and getUserWhatsAppNumbers is awaited.
StopEnter(k, number, user) ==
    /\ user # NoUser
    /\ stops[k].pc = "idle" /\ \A j \in StopSlots : j < k => stops[j].pc # "idle"
    /\ stops' = [stops EXCEPT ![k] =
          [IdleStop EXCEPT !.pc = "owner", !.number = Sanitize(number),
                           !.user = user]]
    /\ UNCHANGED << calls, socks, activeSockets, socketCreationTime, lock,
                    Session, ActiveNumber, log, consecutiveFailures >>

\* getUserWhatsAppNumbers has answered (lines 664-677): 403 when the number
\* is not one of the user's; otherwise socket.ws.close() is called and
\* awaited when the registry has the number, and deleteSessionFromMongoDB
\* is called and awaited when it has not.
StopOwner(k, dbOk) ==
    LET cleanNumber == stops[k].number
        socket == activeSockets[cleanNumber] IN
    /\ stops[k].pc = "owner"
    /\ IF cleanNumber \notin getUserWhatsAppNumbers(stops[k].user, dbOk)
       THEN /\ stops' = [stops EXCEPT ![k] = IdleStop]
            /\ UNCHANGED socks
       ELSE IF socket # NoSocket
       THEN /\ stops' = [stops EXCEPT ![k] =
                  [@ EXCEPT !.pc = "closing", !.socket = socket]]
            /\ socks' = [socks EXCEPT ![socket] =
                  [@ EXCEPT !.held = @ + 1,
                            !.ws = IF @ \in {"connecting", "open"}
                                   THEN "closing" ELSE @]]
       ELSE /\ stops' = [stops EXCEPT ![k] = [@ EXCEPT !.pc = "delete"]]
            /\ UNCHANGED socks
    /\ UNCHANGED << calls, activeSockets, socketCreationTime, lock,
                    Session, ActiveNumber, log, consecutiveFailures >>

\* socket.ws.close() has answered (lines 672-677): the listeners of the
\* socket are removed, the entries of the number are deleted from both maps
\* (remove) and deleteSessionFromMongoDB is called and awaited.
StopClosedAs(k, remove) ==
    LET cleanNumber == stops[k].number
        socket == stops[k].socket IN
    /\ stops[k].pc = "closing"
    /\ SockStep(socket, [socks[socket] EXCEPT
                            !.held = @ - 1, !.listeners = FALSE,
                            !.ws = IF @ = "closing" THEN "closed" ELSE @])
    /\ IF remove
       THEN /\ activeSockets' = [activeSockets EXCEPT ![cleanNumber] = NoSocket]
            /\ socketCreationTime' = socketCreationTime \ {cleanNumber}
       ELSE UNCHANGED << activeSockets, socketCreationTime >>
    /\ stops' = [stops EXCEPT ![k] =
          [@ EXCEPT !.pc = "delete", !.socket = NoSocket]]
    /\ UNCHANGED << lock, Session, ActiveNumber, log, consecutiveFailures >>

\* The route without the two deletes of lines 673-674.
StopClosed_KeepEntry(k) == StopClosedAs(k, FALSE)

StopClosed(k) == StopClosedAs(k, TRUE)

\* deleteSessionFromMongoDB has answered (lines 677-679): success is sent.
StopDelete(k, outcome) ==
    LET cleanNumber == stops[k].number IN
    /\ stops[k].pc = "delete"
    /\ Session' = deleteSessionFromMongoDB_Session(cleanNumber, outcome)
    /\ ActiveNumber' = deleteSessionFromMongoDB_Active(cleanNumber, outcome)
    /\ stops' = [stops EXCEPT ![k] = IdleStop]
    /\ log' = Log(cleanNumber, "success")
    /\ UNCHANGED << calls, socks, activeSockets, socketCreationTime, lock,
                    consecutiveFailures >>

----------------------------------------------------------------------------
(* DELETE /admin/api/session/:number and DELETE /admin/api/user/:userId *)

\* The session request of the admin arrives (lines 857-868): when the
\* registry has the number as it is given, socket.ws.close() is called and
\* awaited; otherwise adminDeleteSession is called and awaited.
AdminSessionEnter(k, number) ==
    LET has == isNumberAlreadyConnected_Raw(number)
        socket == IF has THEN activeSockets[number] ELSE NoSocket IN
    /\ stops[k].pc = "idle" /\ \A j \in StopSlots : j < k => stops[j].pc # "idle"
    /\ stops' = [stops EXCEPT ![k] =
          [IdleStop EXCEPT !.pc = IF has THEN "adminClosing" ELSE "adminDelete",
                           !.number = number, !.socket = socket]]
    /\ IF has
       THEN socks' = [socks EXCEPT ![socket] =
                [@ EXCEPT !.held = @ + 1,
                          !.ws = IF @ \in {"connecting", "open"}
                                 THEN "closing" ELSE @]]
       ELSE UNCHANGED socks
    /\ UNCHANGED << calls, activeSockets, socketCreationTime, lock,
                    Session, ActiveNumber, log, consecutiveFailures >>

\* socket.ws.close() has answered (lines 862-868): the listeners are
\* removed, the entries of the number deleted from both maps, and
\* adminDeleteSession is called and awaited.
AdminSessionClosed(k) ==
    LET number == stops[k].number
        socket == stops[k].socket IN
    /\ stops[k].pc = "adminClosing"
    /\ SockStep(socket, [socks[socket] EXCEPT
                            !.held = @ - 1, !.listeners = FALSE,
                            !.ws = IF @ = "closing" THEN "closed" ELSE @])
    /\ activeSockets' = [activeSockets EXCEPT ![number] = NoSocket]
    /\ socketCreationTime' = socketCreationTime \ {number}
    /\ stops' = [stops EXCEPT ![k] =
          [@ EXCEPT !.pc = "adminDelete", !.socket = NoSocket]]
    /\ UNCHANGED << lock, Session, ActiveNumber, log, consecutiveFailures >>

\* adminDeleteSession has answered (lines 868-869): the result is sent.
AdminSessionDelete(k, outcome) ==
    LET number == stops[k].number IN
    /\ stops[k].pc = "adminDelete"
    /\ Session' = adminDeleteSession_Session(number, outcome)
    /\ ActiveNumber' = adminDeleteSession_Active(number, outcome)
    /\ stops' = [stops EXCEPT ![k] = IdleStop]
    /\ UNCHANGED << calls, socks, activeSockets, socketCreationTime, lock,
                    log, consecutiveFailures >>

\* The user request of the admin arrives (lines 851-853): adminDeleteUser
\* awaits Session.find({ user_id }).
AdminUserEnter(k, userId) ==
    /\ userId # NoUser
    /\ stops[k].pc = "idle" /\ \A j \in StopSlots : j < k => stops[j].pc # "idle"
    /\ stops' = [stops EXCEPT ![k] =
          [IdleStop EXCEPT !.pc = "userFind", !.user = userId]]
    /\ UNCHANGED << calls, socks, activeSockets, socketCreationTime, lock,
                    Session, ActiveNumber, log, consecutiveFailures >>

\* Session.find has answered (database.js 281-283): the loop calls
\* adminDeleteSession for the first session and awaits it; with no session
\* it goes on to User.deleteOne; when the query threw the result is sent.
AdminUserFound(k, dbOk, sessions) ==
    /\ stops[k].pc = "userFind"
    /\ stops' = [stops EXCEPT ![k] =
          IF ~dbOk THEN IdleStop
          ELSE [@ EXCEPT !.pc = IF sessions = << >> THEN "userEnd"
                                ELSE "userDelete",
                         !.sessions = sessions]]
    /\ UNCHANGED << calls, socks, activeSockets, socketCreationTime, lock,
                    Session, ActiveNumber, log, consecutiveFailures >>

\* adminDeleteSession of the loop has answered (database.js 282-284): the
\* loop goes on to the next session, or to User.deleteOne.
AdminUserDelete(k, outcome) ==
    LET number == Head(stops[k].sessions)
        rest == Tail(stops[k].sessions) IN
    /\ stops[k].pc = "userDelete"
    /\ Session' = adminDeleteSession_Session(number, outcome)
    /\ ActiveNumber' = adminDeleteSession_Active(number, outcome)
    /\ stops' = [stops EXCEPT ![k] =
          [@ EXCEPT !.pc = IF rest = << >> THEN "userEnd" ELSE "userDelete",
                    !.sessions = rest]]
    /\ UNCHANGED << calls, socks, activeSockets, socketCreationTime, lock,
                    log, consecutiveFailures >>

\* User.deleteOne and WebSession.deleteMany have answered (database.js
\* 285-287; part_000 853-854): the result is sent. No socket is looked up.
AdminUserEnd(k) ==
    /\ stops[k].pc = "userEnd"
    /\ stops' = [stops EXCEPT ![k] = IdleStop]
    /\ UNCHANGED << calls, socks, activeSockets, socketCreationTime, lock,
                    Session, ActiveNumber, log, consecutiveFailures >>

----------------------------------------------------------------------------
(* autoReconnect *)

\* The orders in which ActiveNumber.find may return the records of S.
Orders(S) ==
    { q \in [1..Cardinality(S) -> S] :
        \A a, b \in 1..Cardinality(S) : q[a] = q[b] => a = b }

\* getAllNumbersFromMongoDB: the numbers of the is_active records, none when
\* the query throws (the catch returns []).
getAllNumbersFromMongoDB(dbOk) == IF dbOk THEN Orders(ActiveNumber) ELSE { << >> }

\* The first position from on in numbers whose number the registry has not
\* (one past the end when there is none): where the for loop stops passing.
RECURSIVE FirstAbsent(_, _)
FirstAbsent(numbers, from) ==
    IF from > Len(numbers) \/ activeSockets[numbers[from]] = NoSocket
    THEN from
    ELSE FirstAbsent(numbers, from + 1)

\* The for loop of lines 886-892 from the state rc of autoReconnect, up to
\* its next await: the numbers the registry has are passed (test: the
\* condition of line 887 is evaluated), startBot is called for the first it
\* has not, in slot j, and awaited; when startBot returns at once the loop
\* awaits delay(3000); at the end of numbers the function returns.
RecRunAs(rc, j, test) ==
    LET k == IF test THEN FirstAbsent(rc.numbers, rc.next) ELSE rc.next
        passed == SubSeq(rc.numbers, rc.next, k - 1)
    IN  IF k > Len(rc.numbers)
        THEN /\ j = 1      \* no startBot, no slot
             /\ reconnect' = [rc EXCEPT !.pc = "done", !.next = k,
                                        !.skipped = @ \o passed]
             /\ UNCHANGED << calls, socks, activeSockets, socketCreationTime,
                             lock, Session, ActiveNumber, log,
                             consecutiveFailures >>
        ELSE /\ StartEnter(calls, j, rc.numbers[k], NoUser)
             /\ reconnect' = [rc EXCEPT
                   !.pc = IF calls'[j].pc = "load" THEN "start" ELSE "delay",
                   !.call = IF calls'[j].pc = "load" THEN j ELSE NoSocket,
                   !.next = k + 1,
                   !.skipped = @ \o passed,
                   !.started = Append(@, rc.numbers[k])]
             /\ UNCHANGED << socks, consecutiveFailures >>

\* The loop without the test of line 887.
RecRun_NoTest(rc, j) == RecRunAs(rc, j, FALSE)

RecRun(rc, j) == RecRunAs(rc, j, TRUE)

\* The timer of line 898 fires: autoReconnect awaits getAllNumbersFromMongoDB.
RecTimer ==
    /\ reconnect.pc = "timer"
    /\ reconnect' = [reconnect EXCEPT !.pc = "list"]
    /\ UNCHANGED << calls, socks, activeSockets, socketCreationTime, lock,
                    Session, ActiveNumber, log, consecutiveFailures >>

\* getAllNumbersFromMongoDB has answered numbers: the loop begins.
RecList(numbers, j) ==
    /\ reconnect.pc = "list"
    /\ RecRun([reconnect EXCEPT !.numbers = numbers], j)

\* delay(3000) has elapsed: the loop goes on.
RecDelay(j) ==
    /\ reconnect.pc = "delay"
    /\ RecRun(reconnect, j)

\* autoReconnect after a step of startBot invocation i that makes it return
\* (returned): when it is the one the loop awaits, the loop awaits
\* delay(3000).
RecAwait(i, returned) ==
    IF returned /\ reconnect.pc = "start" /\ reconnect.call = i
    THEN [reconnect EXCEPT !.pc = "delay", !.call = NoSocket]
    ELSE reconnect

----------------------------------------------------------------------------

\* No startBot invocation is running and no socket is left.
Quiet == \A k \in Slots : calls[k].pc = "idle"

Next ==
    \/ \E i \in Slots, r \in env.numbers, u \in env.users :
          (env.serial => Quiet) /\ HttpCode(i, r, u) /\ UNCHANGED << env, stops, reconnect >>
    \/ \E i \in Slots, dbOk \in env.store, fsOk \in BOOLEAN : StartLoaded(i, dbOk, fsOk) /\ UNCHANGED << env, stops, reconnect >>
    \/ \E i \in Slots, ok \in BOOLEAN : StartAuth(i, ok) /\ UNCHANGED << env, stops, reconnect >>
    \/ \E i \in Slots, c \in env.causes : ConnClose(i, c[1], c[2]) /\ UNCHANGED << env, stops, reconnect >>
    \/ \E i \in Slots, o \in DeleteOutcomesIn(env.store) : H401Delete(i, o) /\ UNCHANGED << env, stops, reconnect >>
    \/ \E i \in Slots, dbOk \in env.store : H401Remove(i, dbOk) /\ UNCHANGED << env, stops, reconnect >>
    \/ \E i \in Slots, j \in Slots : RestartFire(i, j) /\ UNCHANGED << env, stops, reconnect >>
    \/ \E i \in Slots, dbOk \in env.store : ConnOpen(i, dbOk) /\ UNCHANGED << env, stops, reconnect >>
    \/ \E i \in Slots : CredsUpdate(i) /\ UNCHANGED << env, stops, reconnect >>
    \/ \E i \in Slots, dbOk \in env.store : CredsSave(i, dbOk) /\ UNCHANGED << env, stops, reconnect >>

Spec == Init /\ [][Next]_vars

SpecLog == InitLog /\ [][Next]_vars

SpecSkip == InitSkip /\ [][Next]_vars

SpecRetry == InitRetry /\ [][Next]_vars

SpecClassify == InitClassify /\ [][Next]_vars

\* One tenant, one cause of each class, requests one at a time, with the
\* last save of credentials that failed kept.
InitCreds ==
    Start([OneTenant EXCEPT !.causes = PlainCauses, !.serial = TRUE,
                            !.logged = {"Error saving session"}, !.logCap = 1])

SpecCreds == InitCreds /\ [][Next]_vars

\* The program with the post-connect hooks and the pairing timer, its
\* sockets closing with causes of the restart branch only.
NextHooks ==
    \/ \E i \in Slots, r \in env.numbers, u \in env.users :
          (env.serial => Quiet) /\ HttpCode(i, r, u) /\ UNCHANGED << env, stops, reconnect >>
    \/ \E i \in Slots, dbOk \in env.store, fsOk \in BOOLEAN :
          StartLoaded(i, dbOk, fsOk) /\ UNCHANGED << env, stops, reconnect >>
    \/ \E i \in Slots, ok \in BOOLEAN : StartAuth(i, ok) /\ UNCHANGED << env, stops, reconnect >>
    \/ \E i \in Slots, c \in env.causes :
          ConnClose(i, c[1], c[2]) /\ UNCHANGED << env, stops, reconnect >>
    \/ \E i \in Slots, j \in Slots : RestartFire(i, j) /\ UNCHANGED << env, stops, reconnect >>
    \/ \E i \in Slots, dbOk \in env.store : ConnOpen(i, dbOk) /\ UNCHANGED << env, stops, reconnect >>
    \/ \E i \in Slots : CredsUpdate(i) /\ UNCHANGED << env, stops, reconnect >>
    \/ \E i \in Slots, dbOk \in env.store : CredsSave(i, dbOk) /\ UNCHANGED << env, stops, reconnect >>
    \/ \E i \in Slots, ok \in BOOLEAN :
          autoFollowChannels(i, ok) /\ UNCHANGED << env, stops, reconnect >>
    \/ \E i \in Slots : HookDelay(i, "follow") /\ UNCHANGED << env, stops, reconnect >>
    \/ \E i \in Slots, ok \in BOOLEAN :
          autoJoinGroups(i, ok) /\ UNCHANGED << env, stops, reconnect >>
    \/ \E i \in Slots : HookDelay(i, "join") /\ UNCHANGED << env, stops, reconnect >>
    \/ \E i \in Slots, ok \in BOOLEAN :
          Welcome(i, ok) /\ UNCHANGED << env, stops, reconnect >>
    \/ \E i \in Slots : PairTimer(i) /\ UNCHANGED << env, stops, reconnect >>
    \/ \E i \in Slots, ok \in BOOLEAN, owner \in BOOLEAN :
          PairCode(i, ok, owner) /\ UNCHANGED << env, stops, reconnect >>
    \/ \E i \in Slots, ok \in BOOLEAN :
          PairSent(i, ok) /\ UNCHANGED << env, stops, reconnect >>

\* One tenant, requests one at a time; the hook lists of any length up to
\* the bounds; the last welcome message sent or pairing error is kept.
InitHooks ==
    \E f \in 0..MaxChannels, g \in 0..MaxGroups :
        Start([OneTenant EXCEPT !.causes = { << 428, << "Connection", "Closed" >> >> },
                                !.serial = TRUE,
                                !.hooks = TRUE, !.channels = f, !.groups = g,
                                !.logged = {"welcome", "Pairing error"}, !.logCap = 1])

SpecHooks == InitHooks /\ [][NextHooks]_vars

\* The program with its disconnect route.
NextStop ==
    \/ Next
    \/ \E k \in StopSlots, r \in env.numbers, u \in env.users :
          StopEnter(k, r, u) /\ UNCHANGED << env, reconnect >>
    \/ \E k \in StopSlots, dbOk \in env.store : StopOwner(k, dbOk) /\ UNCHANGED << env, reconnect >>
    \/ \E k \in StopSlots : StopClosed(k) /\ UNCHANGED << env, reconnect >>
    \/ \E k \in StopSlots, o \in DeleteOutcomesIn(env.store) :
          StopDelete(k, o) /\ UNCHANGED << env, reconnect >>

\* One tenant, who asks for codes and disconnects; one cause of each class,
\* a store that never throws; the last disconnect that succeeded is kept.
InitStop ==
    Start([OneTenant EXCEPT !.users = {1}, !.store = {TRUE},
                            !.causes = PlainCauses,
                            !.logged = {"success"}, !.logCap = 1])

SpecStop == InitStop /\ [][NextStop]_vars

\* The sessions of a user, in the orders Session.find may return them.
SessionsOf(userId) ==
    Orders({ n \in Ids : Session[n].present /\ Session[n].user_id = userId })

\* The steps of the two delete routes of the admin that follow an await.
AdminContinue ==
    \/ \E k \in StopSlots : AdminSessionClosed(k) /\ UNCHANGED << env, reconnect >>
    \/ \E k \in StopSlots, o \in DeleteOutcomesIn(env.store) :
          AdminSessionDelete(k, o) /\ UNCHANGED << env, reconnect >>
    \/ \E k \in StopSlots, dbOk \in env.store :
          \E sessions \in SessionsOf(stops[k].user) :
             AdminUserFound(k, dbOk, sessions) /\ UNCHANGED << env, reconnect >>
    \/ \E k \in StopSlots, o \in DeleteOutcomesIn(env.store) :
          AdminUserDelete(k, o) /\ UNCHANGED << env, reconnect >>
    \/ \E k \in StopSlots : AdminUserEnd(k) /\ UNCHANGED << env, reconnect >>

\* The program with its disconnect route and the delete routes of the admin.
NextAdmin ==
    \/ NextStop
    \/ \E k \in StopSlots, r \in env.numbers :
          AdminSessionEnter(k, r) /\ UNCHANGED << env, reconnect >>
    \/ \E k \in StopSlots, u \in env.users :
          AdminUserEnter(k, u) /\ UNCHANGED << env, reconnect >>
    \/ AdminContinue

\* One tenant, who asks for codes and disconnects, one request at a time,
\* and an admin; one cause of each class, a store that never throws.
InitAdmin ==
    Start([OneTenant EXCEPT !.users = {1}, !.store = {TRUE},
                            !.causes = PlainCauses, !.serial = TRUE])

SpecAdmin == InitAdmin /\ [][NextAdmin]_vars

\* The listener of the exit of the process (lines 911-917), for the sockets
\* of the registry in any state: their transports are closed and their
\* entries deleted from both maps. Nothing of the process runs after it.
ExitAs(times) ==
    LET registered == { n \in Ids : activeSockets[n] # NoSocket }
        closed == { activeSockets[n] : n \in registered } IN
    /\ env.running
    /\ env' = [env EXCEPT !.running = FALSE]
    /\ socks' = [i \in Slots |->
          IF i \in closed
          THEN [socks[i] EXCEPT !.ws = IF @ \in {"connecting", "open"}
                                        THEN "closing" ELSE @]
          ELSE socks[i]]
    /\ activeSockets' = [n \in Ids |-> NoSocket]
    /\ socketCreationTime' = socketCreationTime \ times
    /\ UNCHANGED << calls, lock, Session, ActiveNumber, log,
                    consecutiveFailures, stops, reconnect >>

\* The listener without its socketCreationTime.delete.
Exit_KeepsTimes == ExitAs({})

Exit == ExitAs({ n \in Ids : activeSockets[n] # NoSocket })

\* The program with its routes, until its process exits.
NextExit ==
    \/ env.running /\ NextAdmin
    \/ Exit

\* One tenant, who asks for codes and disconnects, one request at a time,
\* and an admin; one cause of each class, a store that never throws.
InitExit == InitAdmin

SpecExit == InitExit /\ [][NextExit]_vars

\* The same under the scheduling of the event loop: a step that follows an
\* await of the store, of the file system, of the client or of a timer is
\* run once what it awaits has answered, and every such await is answered.
\* The requests and the events of the sockets come when the environment
\* sends them.
SpecAdminFair ==
    /\ InitAdmin /\ [][NextAdmin]_vars
    /\ \A i \in Slots :
          /\ WF_vars(\E dbOk \in env.store, fsOk \in BOOLEAN :
                        StartLoaded(i, dbOk, fsOk) /\ UNCHANGED << env, stops, reconnect >>)
          /\ WF_vars(\E ok \in BOOLEAN :
                        StartAuth(i, ok) /\ UNCHANGED << env, stops, reconnect >>)
          /\ WF_vars(\E o \in DeleteOutcomesIn(env.store) :
                        H401Delete(i, o) /\ UNCHANGED << env, stops, reconnect >>)
          /\ WF_vars(\E dbOk \in env.store :
                        H401Remove(i, dbOk) /\ UNCHANGED << env, stops, reconnect >>)
          /\ WF_vars(\E j \in Slots :
                        RestartFire(i, j) /\ UNCHANGED << env, stops, reconnect >>)
          /\ WF_vars(\E dbOk \in env.store :
                        CredsSave(i, dbOk) /\ UNCHANGED << env, stops, reconnect >>)
    /\ \A k \in StopSlots :
          /\ WF_vars(\E dbOk \in env.store :
                        StopOwner(k, dbOk) /\ UNCHANGED << env, reconnect >>)
          /\ WF_vars(StopClosed(k) /\ UNCHANGED << env, reconnect >>)
          /\ WF_vars(\E o \in DeleteOutcomesIn(env.store) :
                        StopDelete(k, o) /\ UNCHANGED << env, reconnect >>)
    /\ WF_vars(AdminContinue)

\* One tenant, whose code requests all carry the user; one cause of each
\* class.
InitRestart == Start([OneTenant EXCEPT !.users = {1}, !.causes = PlainCauses])

\* startBot and the handlers of its sockets under the scheduling of the
\* event loop: a step that follows an await of the store, of the file
\* system, of the client or of a timer is run once what it awaits has
\* answered, and every such await is answered. The requests and the events
\* of the sockets come when the environment sends them.
SpecRestartFair ==
    /\ InitRestart /\ [][Next]_vars
    /\ \A i \in Slots :
          /\ WF_vars(\E dbOk \in env.store, fsOk \in BOOLEAN :
                        StartLoaded(i, dbOk, fsOk) /\ UNCHANGED << env, stops, reconnect >>)
          /\ WF_vars(\E ok \in BOOLEAN :
                        StartAuth(i, ok) /\ UNCHANGED << env, stops, reconnect >>)
          /\ WF_vars(\E o \in DeleteOutcomesIn(env.store) :
                        H401Delete(i, o) /\ UNCHANGED << env, stops, reconnect >>)
          /\ WF_vars(\E dbOk \in env.store :
                        H401Remove(i, dbOk) /\ UNCHANGED << env, stops, reconnect >>)
          /\ WF_vars(\E j \in Slots :
                        RestartFire(i, j) /\ UNCHANGED << env, stops, reconnect >>)
          /\ WF_vars(\E dbOk \in env.store :
                        CredsSave(i, dbOk) /\ UNCHANGED << env, stops, reconnect >>)

\* Starts and disconnects of one tenant and nothing else: a code request
\* arrives when no startBot is running, no startBot throws, and a transport
\* closes only when the disconnect route closes it.
NextStopStart ==
    \/ \E i \in Slots, r \in env.numbers, u \in env.users :
          (\A j \in Slots : ~InFlight(j)) /\ HttpCode(i, r, u)
          /\ UNCHANGED << env, stops, reconnect >>
    \/ \E i \in Slots, dbOk \in env.store :
          StartLoaded(i, dbOk, TRUE) /\ UNCHANGED << env, stops, reconnect >>
    \/ \E i \in Slots : StartAuth(i, TRUE) /\ UNCHANGED << env, stops, reconnect >>
    \/ \E i \in Slots, c \in env.causes :
          socks[i].ws = "closing" /\ ConnClose(i, c[1], c[2])
          /\ UNCHANGED << env, stops, reconnect >>
    \/ \E i \in Slots, j \in Slots : RestartFire(i, j) /\ UNCHANGED << env, stops, reconnect >>
    \/ \E i \in Slots, dbOk \in env.store : ConnOpen(i, dbOk) /\ UNCHANGED << env, stops, reconnect >>
    \/ \E i \in Slots : CredsUpdate(i) /\ UNCHANGED << env, stops, reconnect >>
    \/ \E i \in Slots, dbOk \in env.store : CredsSave(i, dbOk) /\ UNCHANGED << env, stops, reconnect >>
    \/ \E k \in StopSlots, r \in env.numbers, u \in env.users :
          StopEnter(k, r, u) /\ UNCHANGED << env, reconnect >>
    \/ \E k \in StopSlots, dbOk \in env.store : StopOwner(k, dbOk) /\ UNCHANGED << env, reconnect >>
    \/ \E k \in StopSlots : StopClosed(k) /\ UNCHANGED << env, reconnect >>
    \/ \E k \in StopSlots, o \in DeleteOutcomesIn(env.store) :
          StopDelete(k, o) /\ UNCHANGED << env, reconnect >>

\* The close event of a transport the program closes carries status 428
\* (connectionClosed).
InitStopStart ==
    Start([OneTenant EXCEPT !.users = {1}, !.store = {TRUE},
                            !.causes = { << 428, << "Connection", "Closed" >> >> }])

SpecStopStart == InitStopStart /\ [][NextStopStart]_vars

\* The program with autoReconnect.
NextReconnect ==
    \/ \E i \in Slots, r \in env.numbers, u \in env.users :
          HttpCode(i, r, u) /\ UNCHANGED << env, stops, reconnect >>
    \/ \E i \in Slots, dbOk \in env.store, fsOk \in BOOLEAN :
          /\ StartLoaded(i, dbOk, fsOk)
          /\ reconnect' = RecAwait(i, ~fsOk)
          /\ UNCHANGED << env, stops >>
    \/ \E i \in Slots, ok \in BOOLEAN :
          /\ StartAuth(i, ok)
          /\ reconnect' = RecAwait(i, TRUE)
          /\ UNCHANGED << env, stops >>
    \/ \E i \in Slots, c \in env.causes :
          ConnClose(i, c[1], c[2]) /\ UNCHANGED << env, stops, reconnect >>
    \/ \E i \in Slots, o \in DeleteOutcomesIn(env.store) :
          H401Delete(i, o) /\ UNCHANGED << env, stops, reconnect >>
    \/ \E i \in Slots, dbOk \in env.store :
          H401Remove(i, dbOk) /\ UNCHANGED << env, stops, reconnect >>
    \/ \E i \in Slots, j \in Slots :
          RestartFire(i, j) /\ UNCHANGED << env, stops, reconnect >>
    \/ \E i \in Slots, dbOk \in env.store :
          ConnOpen(i, dbOk) /\ UNCHANGED << env, stops, reconnect >>
    \/ \E i \in Slots : CredsUpdate(i) /\ UNCHANGED << env, stops, reconnect >>
    \/ \E i \in Slots, dbOk \in env.store :
          CredsSave(i, dbOk) /\ UNCHANGED << env, stops, reconnect >>
    \/ RecTimer /\ UNCHANGED << env, stops >>
    \/ \E dbOk \in env.store, j \in Slots :
          \E numbers \in getAllNumbersFromMongoDB(dbOk) :
             RecList(numbers, j) /\ UNCHANGED << env, stops >>
    \/ \E j \in Slots : RecDelay(j) /\ UNCHANGED << env, stops >>

\* Two tenants, the database holding the records of any of them; code
\* requests come for the first, digits only; a store that never throws, one
\* cause of each class.
InitReconnect ==
    \E active \in SUBSET Ids :
        Boot([OneTenant EXCEPT !.numbers = { << "1" >> }, !.store = {TRUE},
                               !.causes = PlainCauses],
             active, active)

SpecReconnect == InitReconnect /\ [][NextReconnect]_vars

\* The same with the last start that threw kept, the database holding the
\* records of the first tenant.
InitThrow ==
    Boot([OneTenant EXCEPT !.numbers = { << "1" >> }, !.store = {TRUE},
                           !.causes = PlainCauses,
                           !.logged = {"Failed"}, !.logCap = 1],
         { << "1" >> }, { << "1" >> })

SpecThrow == InitThrow /\ [][NextReconnect]_vars

\* Two startBot calls and nothing else: no event of a socket is delivered.
Invocations == Cardinality({ i \in Slots : InFlight(i) }) + Len(log)

NextPair ==
    \/ \E i \in Slots, r \in env.numbers, u \in env.users :
          Invocations < 2 /\ HttpCode(i, r, u) /\ UNCHANGED << env, stops, reconnect >>
    \/ \E i \in Slots, dbOk \in env.store, fsOk \in BOOLEAN :
          StartLoaded(i, dbOk, fsOk) /\ UNCHANGED << env, stops, reconnect >>
    \/ \E i \in Slots, ok \in BOOLEAN : StartAuth(i, ok) /\ UNCHANGED << env, stops, reconnect >>

SpecPair == InitPair /\ [][NextPair]_vars

\* The same two calls, the requests carrying the raw forms of one set.
InitNormalize ==
    \E S \in (SUBSET RawNumbers) \ { {} } :
        Start([numbers |-> S, users |-> UserIds,
               causes |-> Causes, store |-> BOOLEAN,
               logged |-> Outcomes, logCap |-> 2,
               failures |-> FALSE, serial |-> FALSE,
               hooks |-> FALSE, channels |-> 0, groups |-> 0,
             running |-> TRUE])

SpecNormalize == InitNormalize /\ [][NextPair]_vars

----------------------------------------------------------------------------
(* Claims *)

\* The transport of socket i is up (connecting or open).
Live(i) == socks[i].made /\ socks[i].ws \in {"connecting", "open"}

LiveFor(n) == { i \in Slots : Live(i) /\ calls[i].number = n }

InFlightFor(n) == { i \in Slots : InFlight(i) /\ calls[i].number = n }

\* C1: for every identity there is at most one live session handle at any
\* time, whatever the number of startBot calls issued for it: no second
\* client is made while another client of the identity is live.
C1_AtMostOneLiveHandle ==
    \A n \in Ids : Cardinality(LiveFor(n)) <= 1

\* C2: a startBot call that finds the lock flag of its number set returns
\* without changing the flag, the registry, the creation times or the store.
C2_InProgressIsNoOp ==
    [][\A i \in Slots, r \in env.numbers, u \in env.users :
         (HttpCode(i, r, u) /\ ~isNumberAlreadyConnected(r) /\ lock[Sanitize(r)])
         => UNCHANGED << lock, activeSockets, socketCreationTime, Session,
                         ActiveNumber >>]_vars

\* C3: for every identity at most one startBot invocation is between its
\* setting of the lock flag and its finally block.
C3_MutualExclusion ==
    \A n \in Ids : Cardinality(InFlightFor(n)) <= 1

\* The causes, by the class the handler puts them in.
CausesByClass ==
    [class \in {"PermanentAuthFailure", "ExpectedTransient", "RetryableTransient"}
        |-> { c \in Causes : Classify(c[1], c[2]) = class }]

CausesOf(class) == CausesByClass[class]

\* The transport of socket i closes in this step.
Closes(i) == socks[i].ws # "closed" /\ socks'[i].ws = "closed"

Results == { log[k].result : k \in 1..Len(log) }

SocketsFor(n) == { i \in Slots : socks[i].made /\ calls[i].number = n }

\* C4: when two startBot calls for the same number, neither of which
\* throws, have both returned, one has started the client and the other
\* was answered already-connected or in-progress, and the registry holds
\* the one client made for the number.
C4_TwoStarts ==
    (/\ Len(log) = 2 /\ Invocations = 2
     /\ log[1].number = log[2].number
     /\ "Failed" \notin Results)
    => /\ \E k \in 1..2 :
            /\ log[k].result = "Started"
            /\ log[3 - k].result \in {"AlreadyConnected", "already_connected",
                                      "InProgress"}
       /\ Cardinality(SocketsFor(log[1].number)) = 1
       /\ activeSockets[log[1].number] \in SocketsFor(log[1].number)

\* Two overlapping calls: the second returns while the first awaits.
C4_Witness ==
    /\ Len(log) = 2
    /\ log[1] = [number |-> << "1" >>, result |-> "InProgress"]
    /\ log[2] = [number |-> << "1" >>, result |-> "Started"]

\* C5: the lock flag of a number is set only while a startBot invocation
\* that set it has not returned: no return, normal or after a throw, leaves
\* it set.
C5_LockNeverLeaks ==
    \A n \in Ids : lock[n] => InFlightFor(n) # {}

\* A startBot that held the flag has thrown and returned.
C5_Witness ==
    \E n \in Ids :
        /\ log = << [number |-> n, result |-> "Failed"] >>
        /\ ~lock[n]
        /\ InFlightFor(n) = {}

\* What a startBot call that returns at once leaves alone.
StartFrame ==
    /\ UNCHANGED << activeSockets, socketCreationTime, lock, Session, ActiveNumber >>
    /\ \A k \in Slots : /\ calls'[k].pc \in {"load", "auth"} => calls[k] = calls'[k]
                        /\ socks'[k].made => /\ socks[k].made
                                             /\ socks'[k].ws = socks[k].ws

\* C6: a start for a number whose registry entry holds a handle, answered
\* by the route or by startBot called for a restart, makes no client and
\* leaves the registry, the creation times, the lock flag and the store
\* unchanged.
C6_AlreadyConnectedIsNoOp ==
    [][/\ \A i \in Slots, r \in env.numbers, u \in env.users :
            (isNumberAlreadyConnected(r) /\ HttpCode(i, r, u)) => StartFrame
       /\ \A i \in Slots, j \in Slots :
            (/\ socks[i].restart = "delay"
             /\ isNumberAlreadyConnected(calls[i].number)
             /\ RestartFire(i, j))
            => StartFrame]_vars

\* startBot has returned on line 268 and the handle is still there.
C6_Witness ==
    \E n \in Ids :
        /\ log = << [number |-> n, result |-> "AlreadyConnected"] >>
        /\ activeSockets[n] # NoSocket

\* C7: the handler of a close classified PermanentAuthFailure removes the
\* registry entry and the creation time, goes on to delete the Session
\* record and the ActiveNumber entry (deleted when the store accepts the
\* delete), removes the listeners, and at no step issues a startBot call or
\* schedules a restart.
C7_PermanentAuthFailure ==
    [][/\ \A i \in Slots, c \in CausesOf("PermanentAuthFailure") :
            (Closes(i) /\ ConnClose(i, c[1], c[2]))
            => /\ activeSockets'[calls[i].number] = NoSocket
               /\ calls[i].number \notin socketCreationTime'
               /\ socks'[i].h401 = "delSession"
               /\ socks'[i].restart = "idle"
               /\ calls' = calls
       /\ \A i \in Slots, outcome \in DeleteOutcomes :
            H401Delete(i, outcome)
            => /\ outcome = "ok" => /\ ~Session'[calls[i].number].present
                                    /\ calls[i].number \notin ActiveNumber'
               /\ socks'[i].h401 = "remNumber"
               /\ socks'[i].restart = "idle"
               /\ calls' = calls
       /\ \A i \in Slots, dbOk \in BOOLEAN :
            H401Remove(i, dbOk)
            => /\ dbOk => calls[i].number \notin ActiveNumber'
               /\ ~socks'[i].listeners
               /\ socks'[i].restart = "idle"
               /\ \A k \in Slots : calls'[k].pc = "load" => calls[k].pc = "load"]_vars

\* The handler has removed the entry and deleted the record.
C7_Witness ==
    \E i \in Slots :
        /\ socks[i].h401 = "remNumber"
        /\ activeSockets[calls[i].number] = NoSocket
        /\ ~Session[calls[i].number].present
        /\ calls[i].number \notin ActiveNumber

\* C8: once maxRestartAttempts retryable closes of a number have followed
\* one another with no open and no explicit request in between, no
\* further restart is scheduled for the number.
C8_RetryBudget ==
    \A i \in Slots :
        socks[i].restart = "delay"
        => consecutiveFailures[calls[i].number] <= maxRestartAttempts

\* C9: the handler of a close classified RetryableTransient schedules one
\* restart and unsubscribes; a scheduled restart ends only by calling
\* startBot, once, for the number of the socket.
C9_OneRestartPerRetryableClose ==
    [][/\ \A i \in Slots, c \in CausesOf("RetryableTransient") :
            (Closes(i) /\ ConnClose(i, c[1], c[2]))
            => /\ socks[i].restart = "idle"
               /\ socks'[i].restart = "delay"
               /\ ~socks'[i].listeners
               /\ calls' = calls
       /\ \A i \in Slots :
            (socks[i].restart = "delay" /\ socks'[i].restart # "delay")
            => \E j \in Slots : RestartFire(i, j)
       /\ \A i \in Slots, j \in Slots :
            RestartFire(i, j)
            => LET n == calls[i].number
                   new == { k \in Slots : calls'[k].pc = "load"
                                          /\ calls[k].pc # "load" }
               IN  IF activeSockets[n] # NoSocket \/ lock[n]
                   THEN new = {}
                   ELSE new = {j} /\ calls'[j].number = n]_vars

\* A restart is scheduled.
C9_Witness ==
    \E i \in Slots : socks[i].restart = "delay" /\ socks[i].restartAttempts = 1

\* C10: the handler of a close classified ExpectedTransient changes nothing
\* but the transport having closed: the registry, the creation times, the
\* store, the retry counter, the listeners, and no restart is scheduled.
C10_ExpectedTransientNoAction ==
    [][\A i \in Slots, c \in CausesOf("ExpectedTransient") :
         (Closes(i) /\ ConnClose(i, c[1], c[2]))
         => /\ UNCHANGED << activeSockets, socketCreationTime, Session,
                            ActiveNumber, lock, calls >>
            /\ socks' = [socks EXCEPT ![i] = [@ EXCEPT !.ws = "closed"]]]_vars

\* A socket closed by such a cause: still registered, still subscribed.
C10_Witness ==
    \E i \in Slots :
        /\ socks[i].ws = "closed" /\ socks[i].listeners
        /\ socks[i].h401 = "idle" /\ socks[i].restart = "idle"
        /\ socks[i].restartAttempts = 0
        /\ activeSockets[calls[i].number] = i

\* The outcome the classification is to give: what is set in the cause, and
\* which of the two signals wins.
Has401(c) == c[1] = 401 \/ (c[2] # NoMsg /\ \E k \in 1..Len(c[2]) : c[2][k] = "401")

HasNormal(c) ==
    \/ c[1] = 408
    \/ /\ c[2] # NoMsg
       /\ \E k \in 1..(Len(c[2]) - 3) :
             SubSeq(c[2], k, k + 3) = << "QR", "refs", "attempts", "ended" >>

\* C11: for every status and message, absent ones included, the close
\* handler takes exactly one of its three branches: the 401 branch iff the
\* status is 401 or the message contains '401'; otherwise the return of
\* isNormalError iff the status is 408 or the message contains 'QR refs
\* attempts ended'; otherwise the restart branch.
C11_Classification ==
    [][\A i \in Slots, c \in env.causes :
         (Closes(i) /\ ConnClose(i, c[1], c[2]))
         => LET permanent == socks'[i].h401 = "delSession"
                retryable == socks'[i].restart = "delay"
                expected  == socks' = [socks EXCEPT ![i] = [@ EXCEPT !.ws = "closed"]]
            IN  /\ Classify(c[1], c[2]) \in {"PermanentAuthFailure",
                                             "ExpectedTransient",
                                             "RetryableTransient"}
                /\ permanent <=> Has401(c)
                /\ expected <=> (~Has401(c) /\ HasNormal(c))
                /\ retryable <=> (~Has401(c) /\ ~HasNormal(c))
                /\ (Classify(c[1], c[2]) = "PermanentAuthFailure") <=> permanent
                /\ (Classify(c[1], c[2]) = "ExpectedTransient") <=> expected
                /\ (Classify(c[1], c[2]) = "RetryableTransient") <=> retryable]_vars

\* A close with status 408 and '401' in its message has taken the 401 branch.
C11_Witness ==
    /\ env.causes = { << 408, << "Stream", "Errored", "401" >> >> }
    /\ \E i \in Slots : socks[i].h401 = "delSession"

\* C12: a disconnect request that is let through closes the transport of
\* the socket the registry holds for the number, and when the close has
\* answered removes its listeners and the entries of the number from both
\* maps; when the registry has no entry it changes nothing but the store,
\* and a delete that finds nothing to delete changes nothing at all; the
\* delete leaves no Session record and no ActiveNumber entry of the number,
\* whether a socket was closed or not.
C12_StopPurges ==
    [][\A k \in StopSlots :
         LET n == stops[k].number
             held == activeSockets[n]
             socket == stops[k].socket
         IN  /\ (stops[k].pc = "owner" /\ held # NoSocket /\ StopOwner(k, TRUE))
                => \/ stops'[k].pc = "idle"
                   \/ /\ stops'[k].pc = "closing" /\ stops'[k].socket = held
                      /\ ~Live(held)'
             /\ (stops[k].pc = "closing" /\ StopClosed(k))
                => /\ activeSockets'[n] = NoSocket
                   /\ n \notin socketCreationTime'
                   /\ ~socks'[socket].listeners
                   /\ socks'[socket].ws \in {"none", "closed"}
                   /\ stops'[k].pc = "delete"
             /\ (stops[k].pc = "owner" /\ held = NoSocket /\ StopOwner(k, TRUE))
                => /\ stops'[k].pc \in {"idle", "delete"}
                   /\ UNCHANGED << calls, socks, activeSockets,
                                   socketCreationTime, lock, Session, ActiveNumber >>
             /\ (stops[k].pc = "delete" /\ StopDelete(k, "ok"))
                => /\ ~Session'[n].present
                   /\ n \notin ActiveNumber'
                   /\ stops'[k].pc = "idle"
                   /\ (~Session[n].present /\ n \notin ActiveNumber)
                      => UNCHANGED << calls, socks, activeSockets,
                                      socketCreationTime, lock, Session,
                                      ActiveNumber >>]_vars

\* A disconnect has succeeded while the socket it closed is still there,
\* off the registry, without listeners and with its transport closed.
C12_Witness ==
    /\ log # << >>
    /\ \E i \in Slots :
          /\ socks[i].made /\ socks[i].ws = "closed" /\ ~socks[i].listeners
          /\ socks[i].restart = "idle" /\ socks[i].h401 = "idle"
          /\ socks[i].creds = "saving"
          /\ activeSockets[calls[i].number] = NoSocket
          /\ ~Session[calls[i].number].present

\* C13: when a disconnect request has done with the registry (the close it
\* awaited has answered, or there was nothing to close), the registry holds
\* no entry of the number and every raw form of it is reported not
\* connected; and a code request that finds no entry is never answered
\* already_connected: it goes on to the lock flag, and either returns on it
\* or sets it.
C13_StopThenStart ==
    [][/\ \A k \in StopSlots :
            (stops[k].pc \in {"owner", "closing"} /\ stops'[k].pc = "delete")
            => /\ activeSockets'[stops[k].number] = NoSocket
               /\ stops[k].number \notin socketCreationTime'
               /\ \A r \in env.numbers :
                     Sanitize(r) = stops[k].number => ~isNumberAlreadyConnected(r)'
       /\ \A i \in Slots, r \in env.numbers, u \in env.users :
            (activeSockets[Sanitize(r)] = NoSocket /\ HttpCode(i, r, u))
            => /\ log' = log
               /\ IF lock[Sanitize(r)]
                  THEN calls' = calls
                  ELSE /\ calls'[i].pc = "load"
                       /\ calls'[i].number = Sanitize(r)
                       /\ lock'[Sanitize(r)]]_vars

\* A disconnect has succeeded, the socket it closed is still there, and a
\* startBot for the number has set the lock flag and loads the credentials.
C13_Witness ==
    /\ log # << >>
    /\ \E i, j \in Slots :
          /\ socks[i].made /\ socks[i].ws = "closed" /\ ~socks[i].listeners
          /\ socks[i].restart = "idle" /\ socks[i].creds = "saving"
          /\ calls[j].pc = "load" /\ calls[j].number = calls[i].number
          /\ lock[calls[j].number]
          /\ activeSockets[calls[j].number] = NoSocket
          /\ \A k \in StopSlots : stops[k].pc = "idle"

\* C14: when the disconnect requests have answered and no startBot is
\* running, every entry of the registry is a socket whose transport is up,
\* and every socket whose transport is up is the entry of its number,
\* however the steps of the disconnects and of the starts were interleaved.
C14_StopStartConsistent ==
    ((\A k \in StopSlots : stops[k].pc = "idle") /\ (\A j \in Slots : ~InFlight(j)))
    => \A n \in Ids :
          /\ activeSockets[n] # NoSocket => Live(activeSockets[n])
          /\ \A i \in LiveFor(n) : activeSockets[n] = i

\* C15: when a disconnect request succeeds for a number while a restart of
\* that number waits in its delay, the restart is cancelled: it is no longer
\* pending after the step, so that it calls no startBot later.
C15_StopCancelsRestart ==
    [][\A k \in StopSlots, i \in Slots :
         ( /\ stops[k].pc = "delete"
           /\ socks[i].restart = "delay"
           /\ calls[i].number = stops[k].number
           /\ StopDelete(k, "ok") )
         => socks'[i].restart # "delay"]_vars

\* C16: the step of the close handler that schedules a restart increments
\* the counter of the socket, deletes the number from the registry and the
\* creation times and removes the listeners, leaves the Session and
\* ActiveNumber records alone and calls no startBot; startBot is called for
\* the restart only in the step that ends the delay, which is the only step
\* besides a code request in which a startBot invocation begins, and which
\* leaves the records alone as well.
C16_RestartOrder ==
    [][/\ \A i \in Slots :
            (Closes(i) /\ socks'[i].restart = "delay")
            => /\ socks[i].restart = "idle"
               /\ socks'[i].restartAttempts = socks[i].restartAttempts + 1
               /\ activeSockets'[calls[i].number] = NoSocket
               /\ calls[i].number \notin socketCreationTime'
               /\ ~socks'[i].listeners
               /\ UNCHANGED << Session, ActiveNumber, lock, calls >>
       /\ \A j \in Slots :
            (calls[j].pc = "idle" /\ calls'[j].pc = "load")
            => \/ \E r \in env.numbers, u \in env.users : HttpCode(j, r, u)
               \/ \E i \in Slots :
                     /\ socks[i].restart = "delay"
                     /\ RestartFire(i, j)
                     /\ calls'[j].number = calls[i].number
                     /\ UNCHANGED << Session, ActiveNumber >>]_vars

\* The startBot a restart called is running: no request has been made since
\* the close that scheduled it.
C16_Witness ==
    \E j \in Slots :
        /\ InFlight(j)
        /\ consecutiveFailures[calls[j].number] = 1
        /\ activeSockets[calls[j].number] = NoSocket

\* C17: the retry counter counts the consecutive retryable closes of the
\* number since its last open: when a restart is scheduled, the counter the
\* close handler has just incremented is the number of such closes,
\* whichever socket of the number each of them closed.
C17_RetryStateAccumulates ==
    \A i \in Slots :
        socks[i].restart = "delay"
        => socks[i].restartAttempts = consecutiveFailures[calls[i].number]

\* C18: autoReconnect takes the numbers of the ActiveNumber records, each
\* once, in some order. It calls startBot for one number at a time: never
\* while it awaits the startBot it called before, whose return is followed
\* by the delay, and after the first call only when a delay has elapsed.
\* The numbers it calls startBot for are not in the registry; those it
\* passes over are, and passing over changes nothing. When it returns every
\* number has been either started or passed over.
C18_Reconcile ==
    [][LET rc == reconnect
           after == reconnect'
           begun == Len(after.started) > Len(rc.started)
           passed == SubSeq(after.skipped, Len(rc.skipped) + 1, Len(after.skipped))
       IN  /\ (rc.pc = "list" /\ after.pc # "list")
              => /\ after.numbers \in Orders(ActiveNumber)
                 /\ rc.started = << >> /\ rc.skipped = << >>
           /\ begun
              => /\ rc.pc \in {"list", "delay"}
                 /\ rc.pc = "list" <=> rc.started = << >>
                 /\ rc.call = NoSocket
                 /\ after.started = Append(rc.started, after.numbers[after.next - 1])
                 /\ activeSockets[after.numbers[after.next - 1]] = NoSocket
                 /\ IF lock[after.numbers[after.next - 1]]
                    THEN after.pc = "delay" /\ calls' = calls
                    ELSE /\ after.pc = "start"
                         /\ calls[after.call].pc = "idle"
                         /\ calls'[after.call].pc = "load"
                         /\ calls'[after.call].number = after.numbers[after.next - 1]
           /\ (rc.pc = "start" /\ after # rc)
              => /\ after = [rc EXCEPT !.pc = "delay", !.call = NoSocket]
                 /\ InFlight(rc.call)
                 /\ calls'[rc.call].pc \notin {"load", "auth"}
           /\ \A k \in 1..Len(passed) : activeSockets[passed[k]] # NoSocket
           /\ (after.skipped # rc.skipped /\ ~begun)
              => UNCHANGED << calls, socks, activeSockets, socketCreationTime,
                              lock, Session, ActiveNumber, log >>
           /\ after.pc = "done"
              => /\ after.next = Len(after.numbers) + 1
                 /\ Len(after.started) + Len(after.skipped) = Len(after.numbers)
                 /\ \A n \in Ids :
                       Cardinality({ k \in 1..Len(after.started) : after.started[k] = n })
                       + Cardinality({ k \in 1..Len(after.skipped) : after.skipped[k] = n })
                       = Cardinality({ k \in 1..Len(after.numbers) : after.numbers[k] = n })]_vars

\* autoReconnect has returned: of two numbers it has passed over the first
\* and called startBot for the second.
C18_Witness ==
    /\ reconnect.pc = "done"
    /\ Len(reconnect.numbers) = 2
    /\ reconnect.skipped = << reconnect.numbers[1] >>
    /\ reconnect.started = << reconnect.numbers[2] >>

\* The digits of a raw number, in their order.
RECURSIVE Strip(_)
Strip(raw) ==
    IF raw = << >> THEN << >>
    ELSE IF Head(raw) \in {"0", "1", "2", "3", "4", "5", "6", "7", "8", "9"}
    THEN << Head(raw) >> \o Strip(Tail(raw))
    ELSE Strip(Tail(raw))

\* C19: startBot works on the digits of the number it is given, and
\* stripping twice is stripping once: a request is answered
\* already_connected iff the registry has an entry under the digits,
\* returns iff the lock flag of the digits is set, and otherwise sets that
\* flag; the credentials are read under the digits and the client is
\* registered under them; every raw form with the same digits is looked up
\* alike in the registry, the lock flags and the store.
C19_Normalized ==
    [][/\ Sanitize(<< "+", "1", " ", "5", "5", "5", "-", "0", "1", "0", "0" >>)
            = << "1", "5", "5", "5", "0", "1", "0", "0" >>
       /\ \A i \in Slots, r \in env.numbers, u \in env.users :
            HttpCode(i, r, u)
            => /\ Sanitize(r) = Strip(r)
               /\ Sanitize(Sanitize(r)) = Sanitize(r)
               /\ IF activeSockets[Strip(r)] # NoSocket
                  THEN /\ UNCHANGED << calls, lock, activeSockets >>
                       /\ log' # log /\ log'[Len(log')].result = "already_connected"
                  ELSE IF lock[Strip(r)]
                  THEN /\ calls' = calls
                       /\ log' # log /\ log'[Len(log')].result = "InProgress"
                  ELSE /\ calls'[i].pc = "load" /\ calls'[i].number = Strip(r)
                       /\ lock' = [lock EXCEPT ![Strip(r)] = TRUE]
               /\ \A q \in RawNumbers :
                     Strip(q) = Strip(r)
                     => /\ isNumberAlreadyConnected(q) = isNumberAlreadyConnected(r)
                        /\ getSessionFromMongoDB(q, TRUE) = getSessionFromMongoDB(r, TRUE)
                        /\ lock[Sanitize(q)] = lock[Sanitize(r)]
       /\ \A i \in Slots, dbOk \in env.store :
            StartLoaded(i, dbOk, TRUE)
            => calls'[i].existingSession = (dbOk /\ Session[calls[i].number].present)
       /\ \A i \in Slots :
            StartAuth(i, TRUE)
            => /\ activeSockets'[calls[i].number] = i
               /\ calls[i].number \in socketCreationTime'
               /\ calls[i].number = Strip(calls[i].number)]_vars

\* Every request carried "+1": the first registered its client under "1"
\* and the second found it there.
C19_Witness ==
    /\ env.numbers = { << "+", "1" >> }
    /\ activeSockets[<< "1" >>] # NoSocket
    /\ Len(log) = 2
    /\ log[1] = [number |-> << "1" >>, result |-> "Started"]
    /\ log[2] = [number |-> << "1" >>, result |-> "already_connected"]

\* C20: while a startBot of another number is running, a code request for a
\* number that has no entry in the registry and whose own lock flag is not
\* set is let in: it sets the flag of its number and loads the credentials;
\* it changes neither the flag, the entry nor the invocations of any other
\* number, and so does the step that registers its client, which succeeds
\* while the other startBot is still running.
C20_IdentitiesIndependent ==
    [][/\ \A i \in Slots, r \in env.numbers, u \in env.users :
            ( /\ \E a \in Slots : InFlight(a) /\ calls[a].number # Sanitize(r)
              /\ HttpCode(i, r, u) )
            => LET B == Sanitize(r) IN
               /\ (activeSockets[B] = NoSocket /\ ~lock[B])
                  => /\ calls'[i].pc = "load" /\ calls'[i].number = B
                     /\ lock'[B]
                     /\ log' = log
               /\ \A A \in Ids \ {B} :
                     /\ lock'[A] = lock[A]
                     /\ activeSockets'[A] = activeSockets[A]
               /\ \A a \in Slots : calls[a].pc # "idle" => calls'[a] = calls[a]
       /\ \A j \in Slots :
            ( /\ \E a \in Slots : InFlight(a) /\ calls[a].number # calls[j].number
              /\ StartAuth(j, TRUE) )
            => LET B == calls[j].number IN
               /\ activeSockets'[B] = j
               /\ Live(j)'
               /\ \A A \in Ids \ {B} :
                     /\ lock'[A] = lock[A]
                     /\ activeSockets'[A] = activeSockets[A]
               /\ \A a \in Slots \ {j} : calls'[a] = calls[a]]_vars

\* The client of one number is registered while the startBot of the other
\* still holds its lock flag.
C20_Witness ==
    \E a, b \in Slots :
        /\ InFlight(a) /\ lock[calls[a].number]
        /\ calls[b].number # calls[a].number
        /\ Live(b) /\ activeSockets[calls[b].number] = b
        /\ ~lock[calls[b].number]

\* C21: when the query of getSessionFromMongoDB throws during a start, the
\* start ends as Failed: the invocation returns in that step with the lock
\* flag of its number cleared, and no client is made and nothing is
\* registered.
C21_LoadFailureIsFailed ==
    [][\A i \in Slots :
         ( /\ calls[i].pc = "load"
           /\ Session[calls[i].number].present
           /\ StartLoaded(i, FALSE, TRUE) )
         => /\ calls'[i].pc = "idle"
            /\ ~lock'[calls[i].number]
            /\ UNCHANGED << socks, activeSockets, socketCreationTime >>]_vars

\* C22: when startBot throws while it makes the client (useMultiFileAuthState
\* rejects or makeWASocket throws), in a start a restart has issued as in any
\* other, a restart of the number is scheduled and the failure is counted in
\* the consecutive failures of the number.
C22_ConnectFailureIsRetried ==
    [][\A i \in Slots :
         ( /\ calls[i].pc = "auth"
           /\ StartAuth(i, FALSE) )
         => /\ \E j \in Slots : /\ socks'[j].restart = "delay"
                                /\ calls'[j].number = calls[i].number
            /\ consecutiveFailures'[calls[i].number]
                  = consecutiveFailures[calls[i].number] + 1]_vars

\* C23: the handler of creds.update of a socket whose transport is up saves
\* the credentials under the digits of the number: the save that succeeds
\* leaves the Session record of that number and touches no other; the save
\* that fails changes neither the registry, the creation times, the
\* listeners nor the transport, and leaves the socket ready to handle the
\* next creds.update, which saves again.
C23_RotationPersisted ==
    [][\A i \in Slots :
         LET n == calls[i].number IN
         /\ (Live(i) /\ socks[i].listeners /\ socks[i].creds = "idle")
            => ENABLED CredsUpdate(i)
         /\ (Live(i) /\ CredsUpdate(i)) => socks'[i].creds = "saving"
         /\ (socks[i].creds = "saving" /\ CredsSave(i, TRUE))
            => /\ n = Strip(n)
               /\ Session'[n].present
               /\ \A o \in Ids \ {n} : Session'[o] = Session[o]
         /\ (Live(i) /\ socks[i].creds = "saving" /\ CredsSave(i, FALSE))
            => /\ UNCHANGED << activeSockets, socketCreationTime, calls >>
               /\ socks' = [socks EXCEPT ![i] = [@ EXCEPT !.creds = "idle"]]
               /\ socks[i].listeners => (ENABLED CredsUpdate(i))']_vars

\* A save of the registered socket has failed, no record was written, and
\* the handler of a later creds.update of the same socket is at its save.
C23_Witness ==
    \E i \in Slots :
        /\ log = << [number |-> calls[i].number, result |-> "Error saving session"] >>
        /\ Live(i) /\ socks[i].listeners /\ socks[i].creds = "saving"
        /\ activeSockets[calls[i].number] = i
        /\ ~Session[calls[i].number].present

\* The place of a position of the open handler in the order of the hooks.
HookRank(at) ==
    IF at.hook = "follow" THEN 1
    ELSE IF at.hook = "join" THEN 2
    ELSE IF at.hook = "welcome" THEN 3
    ELSE 4

\* A step of the open handler of socket i past the call that has failed.
HookFails(i) ==
    \/ autoFollowChannels(i, FALSE)
    \/ autoJoinGroups(i, FALSE)
    \/ Welcome(i, FALSE)

\* C24: the handler of the open event first awaits addNumberToMongoDB, then
\* goes through autoFollowChannels, autoJoinGroups and the welcome message
\* in this order, each list entry by entry. When the add fails the handler
\* goes on to the hooks all the same; when the call of an entry fails the
\* handler goes on with the next entry or the next hook; and no step of the
\* hooks, failed or not, changes the registry, the creation times, the
\* listeners or the transport.
C24_OpenHooks ==
    [][\A i \in Slots :
         LET at == socks[i].hooks
             to == socks'[i].hooks
             new == ~calls[i].existingSession
         IN  /\ (socks[i].ws = "connecting" /\ socks'[i].ws = "open")
                => /\ at = NoHook
                   /\ \E dbOk \in env.store :
                         /\ ConnOpen(i, dbOk)
                         /\ dbOk => calls[i].number \in ActiveNumber'
                   /\ to = IF env.channels >= 1
                           THEN [hook |-> "follow", item |-> 1, at |-> "call"]
                           ELSE IF env.groups >= 1
                           THEN [hook |-> "join", item |-> 1, at |-> "call"]
                           ELSE IF new
                           THEN [hook |-> "welcome", item |-> 0, at |-> "call"]
                           ELSE NoHook
             /\ (at # NoHook /\ to # at)
                => /\ HookRank(to) >= HookRank(at)
                   /\ HookRank(to) = HookRank(at)
                         => \/ to = [at EXCEPT !.at = "delay"] /\ at.at = "call"
                            \/ to = [at EXCEPT !.item = @ + 1, !.at = "call"]
                   /\ UNCHANGED << activeSockets, socketCreationTime, Session,
                                   ActiveNumber, lock >>
                   /\ socks[i].ws = socks'[i].ws \/ ~socks'[i].made
                   /\ socks[i].listeners = socks'[i].listeners \/ ~socks'[i].made
             /\ (at.hook \in {"follow", "join"} /\ at.at = "call" /\ HookFails(i))
                => LET last == IF at.hook = "follow" THEN env.channels
                               ELSE env.groups
                   IN  /\ at.item < last
                          => to = [at EXCEPT !.item = @ + 1]
                       /\ (at.item = last /\ at.hook = "follow" /\ env.groups >= 1)
                          => to = [hook |-> "join", item |-> 1, at |-> "call"]
                       /\ (at.item = last /\ new
                              /\ (at.hook = "join" \/ env.groups = 0))
                          => to = [hook |-> "welcome", item |-> 0, at |-> "call"]]_vars

\* The add of the open handler has failed, both lists have an entry, and
\* the handler of the registered socket is at the welcome message.
C24_Witness ==
    \E i \in Slots :
        /\ env.channels = 1 /\ env.groups = 1
        /\ socks[i].ws = "open" /\ socks[i].listeners
        /\ socks[i].hooks.hook = "welcome"
        /\ calls[i].number \notin ActiveNumber
        /\ activeSockets[calls[i].number] = i

\* C25: the welcome message is sent by the open handler of a socket iff the
\* startBot that made the socket got no credentials from its load: the
\* handler comes to the send exactly then, the message goes out in no other
\* step, and the handler of a socket runs once, on the one open event of the
\* socket; a socket made from stored credentials, as by a restart, sends
\* none.
C25_WelcomeOncePerPairing ==
    [][\A i \in Slots :
         LET at == socks[i].hooks
             to == socks'[i].hooks
         IN  /\ at.hook = "welcome"
                => ~calls[i].existingSession /\ socks[i].usePairingCode
             /\ (calls[i].pc = "load" /\ calls'[i].pc = "auth")
                => calls'[i].existingSession
                     = \E dbOk \in env.store :
                          /\ StartLoaded(i, dbOk, TRUE)
                          /\ dbOk /\ Session[calls[i].number].present
             /\ (at = NoHook /\ to # NoHook)
                => socks[i].ws = "connecting" /\ socks'[i].ws = "open"
             /\ socks'[i].ws = "connecting"
                => socks[i].ws = "connecting" \/ ~socks[i].made
             /\ (to = NoHook /\ at.hook # "welcome"
                   /\ (at # NoHook \/ (socks[i].ws = "connecting" /\ socks'[i].ws = "open")))
                => calls[i].existingSession
             /\ (log' # log /\ log'[Len(log')].result = "welcome"
                   /\ at.hook = "welcome" /\ to = NoHook)
                => ~calls[i].existingSession
             /\ (log' # log /\ log'[Len(log')].result = "welcome")
                => \E j \in Slots : socks[j].hooks.hook = "welcome"
                                      /\ Welcome(j, TRUE)]_vars

\* The first socket of the number has sent the welcome message; the socket a
\* restart has made from the stored credentials has opened and its handler
\* has returned without a message.
C25_Witness ==
    /\ Len(log) = 1 /\ log[1].result = "welcome"
    /\ \E j \in Slots :
          /\ calls[j].number = log[1].number
          /\ calls[j].existingSession /\ calls[j].userId = NoUser
          /\ socks[j].ws = "open" /\ socks[j].hooks = NoHook
          /\ \A i \in Slots \ {j} : ~socks[i].made

\* C27: startBot makes the client with usePairingCode set iff its load
\* returned no credentials (no record, or the query threw), and from the
\* stored credentials otherwise; the timer of the pairing code is set in
\* the step that makes the client, there only, and iff usePairingCode is
\* set; when it fires the request is made, once; a request that fails
\* changes neither the registry, the creation times nor the lock flags.
C27_PairingMode ==
    [][\A i \in Slots :
         /\ (calls[i].pc = "load" /\ calls'[i].pc = "auth")
            => calls'[i].existingSession
                 = \E dbOk \in env.store :
                      /\ StartLoaded(i, dbOk, TRUE)
                      /\ dbOk /\ Session[calls[i].number].present
         /\ (calls[i].pc = "auth" /\ StartAuth(i, TRUE))
            => /\ socks'[i].usePairingCode = ~calls[i].existingSession
               /\ (socks'[i].pairing = "timer") = socks'[i].usePairingCode
               /\ socks'[i].pairing \in {"timer", "idle"}
         /\ (socks'[i].pairing = "timer" /\ socks[i].pairing # "timer")
            => calls[i].pc = "auth"
         /\ (socks'[i].pairing = "request" /\ socks[i].pairing # "request")
            => socks[i].pairing = "timer" /\ PairTimer(i)
         /\ socks[i].pairing # "idle" => socks[i].usePairingCode
         /\ (socks[i].pairing = "request" /\ \E owner \in BOOLEAN : PairCode(i, FALSE, owner))
            => /\ UNCHANGED << activeSockets, socketCreationTime, lock >>
               /\ socks'[i].pairing = "idle"]_vars

\* The request of the pairing code of the registered socket has failed: the
\* socket is still registered and connecting, and no lock flag is set.
C27_Witness ==
    \E i \in Slots :
        /\ log = << [number |-> calls[i].number, result |-> "Pairing error"] >>
        /\ socks[i].usePairingCode /\ socks[i].pairing = "idle"
        /\ socks[i].ws = "connecting"
        /\ activeSockets[calls[i].number] = i
        /\ \A n \in Ids : ~lock[n]

\* C28: the handler of a close event of a socket deletes from the registry
\* and from the creation times only the entry of that socket: when the
\* registry holds another socket under the number, the 401 branch and the
\* restart branch leave that entry and its creation time in place.
C28_CloseRemovesOwnEntry ==
    [][\A i \in Slots, c \in env.causes :
         LET n == calls[i].number IN
         ( /\ socks[i].made /\ socks[i].listeners
           /\ activeSockets[n] \notin {NoSocket, i}
           /\ Closes(i) /\ ConnClose(i, c[1], c[2]) )
         => /\ activeSockets'[n] = activeSockets[n]
            /\ n \in socketCreationTime']_vars

\* C29: once the disconnect requests of a number have answered, and while
\* nothing of a later code request exists, no startBot that a restart has
\* called registers a socket for the number: the close event that the
\* transport emits while the route awaits socket.ws.close() starts nothing
\* that outlives the disconnect. (Every request carries a user id; a
\* startBot called by a restart has none.)
C29_StopStaysStopped ==
    [][\A j \in Slots :
         LET n == calls[j].number IN
         ( /\ calls[j].pc = "auth" /\ calls[j].userId = NoUser
           /\ NoUser \notin env.users
           /\ \A k \in StopSlots : stops[k].pc = "idle"
           /\ activeSockets[n] = NoSocket
           /\ \A i \in Slots \ {j} :
                 \/ calls[i].pc = "idle"
                 \/ calls[i].userId = NoUser
                 \/ socks[i].made /\ socks[i].ws = "closed" /\ ~socks[i].listeners
           /\ StartAuth(j, TRUE) )
         => activeSockets'[n] = NoSocket]_vars

\* The 401 branch of the close handler of socket i has run to its end: the
\* listeners are removed and no restart was ever scheduled for the socket.
Done401(i) ==
    /\ socks[i].made /\ ~socks[i].listeners /\ socks[i].ws = "closed"
    /\ socks[i].h401 = "idle" /\ socks[i].restart = "idle"
    /\ socks[i].restartAttempts = 0

\* C30: when the 401 branch of a socket has run to its end leaving no
\* Session record of the number, and no other socket of the number has been
\* made since, the record stays absent: nothing the socket has delivered
\* before its listeners were removed writes it again.
C30_PurgedStaysPurged ==
    [][\A i \in Slots :
         LET n == calls[i].number IN
         ( /\ Done401(i)
           /\ SocketsFor(n) = {i}
           /\ ~Session[n].present )
         => ~Session'[n].present]_vars

\* C26: a number that has neither a Session record nor an ActiveNumber
\* entry while the registry holds an open socket for it (the store never
\* failing, the entry was there when the socket opened and has been
\* removed since) eventually has no socket in the registry.
C26_PurgedEventuallyNoHandle ==
    \A n \in Ids :
        ( /\ n \notin ActiveNumber /\ ~Session[n].present
          /\ activeSockets[n] # NoSocket
          /\ socks[activeSockets[n]].ws = "open" )
        ~> (activeSockets[n] = NoSocket)

\* C31: the counter restartAttempts of a socket is never above 1: the step
\* of the close handler that increments it removes the listeners of the
\* socket, and a socket is made with its counter at 0; so the test of line
\* 215 holds whenever a close is handled that is neither 401 nor normal.
C31_CounterAtMostOne ==
    [][\A i \in Slots :
         /\ socks[i].restartAttempts <= 1
         /\ socks'[i].restartAttempts <= 1
         /\ (~socks[i].made /\ socks'[i].made) => socks'[i].restartAttempts = 0
         /\ socks'[i].restartAttempts > socks[i].restartAttempts
            => ~socks'[i].listeners /\ socks'[i].ws = "closed"
         /\ \A c \in CausesOf("RetryableTransient") :
               (Closes(i) /\ ConnClose(i, c[1], c[2]))
               => socks[i].restartAttempts < maxRestartAttempts]_vars

\* The restart of a socket whose counter is 1 has called startBot, and the
\* socket that startBot has made has its counter at 0.
C31_Witness ==
    \E i, j \in Slots :
        /\ socks[i].restartAttempts = 1 /\ socks[i].restart = "idle"
        /\ socks[j].made /\ socks[j].restartAttempts = 0
        /\ calls[j].number = calls[i].number
        /\ activeSockets[calls[j].number] = j

\* C32: the registry and the map of creation times have the same keys in
\* every state in which a callback can start, through start, disconnect,
\* the deletes of the admin, the 401 purge, the restart and the exit of the
\* process.
C32_SameKeys ==
    socketCreationTime = { n \in Ids : activeSockets[n] # NoSocket }

\* The process has exited with a socket in the registry, and both maps are
\* empty.
C32_Witness ==
    /\ ~env.running
    /\ socketCreationTime = {}
    /\ \E i \in Slots : socks[i].made /\ socks[i].ws = "closing" /\ socks[i].listeners

\* C33: a credential save that succeeds on a Session record that has an
\* owner leaves the owner of the record as it was, whichever start has made
\* the socket that saves.
C33_OwnerPreserved ==
    [][\A i \in Slots :
         LET n == calls[i].number IN
         (/\ socks[i].creds = "saving"
          /\ Session[n].present /\ Session[n].user_id # NoUser
          /\ CredsSave(i, TRUE))
         => Session'[n].user_id = Session[n].user_id]_vars

\* C34: a stop request for a raw number whose digits are registered reaches
\* the registered socket: the disconnect route goes on under the digits of
\* the number and, once the owner is known, closes the socket registered
\* under them; the session delete of the admin takes the socket registered
\* under the digits and closes its transport.
C34_StopFindsHandle ==
    [][\A k \in StopSlots :
         /\ \A r \in env.numbers :
              LET n == Sanitize(r)
                  s == activeSockets[n] IN
              s # NoSocket =>
                /\ (\E u \in env.users : StopEnter(k, r, u)) => stops'[k].number = n
                /\ AdminSessionEnter(k, r)
                   => /\ stops'[k].socket = s
                      /\ socks'[s].ws \notin {"connecting", "open"}
         /\ (/\ stops[k].pc = "owner"
             /\ activeSockets[stops[k].number] # NoSocket
             /\ StopOwner(k, TRUE)
             /\ stops'[k].pc # "idle")
            => /\ stops'[k].socket = activeSockets[stops[k].number]
               /\ socks'[stops'[k].socket].ws \notin {"connecting", "open"}]_vars

\* A step of startBot invocation i in which the file operations, the
\* set-up of the auth state or the construction of the client throws.
Throws(i) ==
    \/ calls[i].pc = "load" /\ \E dbOk \in env.store : StartLoaded(i, dbOk, FALSE)
    \/ calls[i].pc = "auth" /\ StartAuth(i, FALSE)

\* C35: a startBot that throws before the client is made writes neither
\* the registry nor the creation times and leaves them without the number,
\* changes no record of Session or ActiveNumber and makes no socket; it
\* logs the error, clears the lock flag and returns: autoReconnect, when it
\* awaits the call, goes on to its delay.
C35_ThrowIsContained ==
    [][\A i \in Slots :
         LET n == calls[i].number IN
         Throws(i)
         => /\ UNCHANGED << activeSockets, socketCreationTime, Session,
                            ActiveNumber, socks >>
            /\ activeSockets'[n] = NoSocket /\ n \notin socketCreationTime'
            /\ calls'[i].pc = "idle"
            /\ ~lock'[n]
            /\ log' = Log(n, "Failed")
            /\ (reconnect.pc = "start" /\ reconnect.call = i)
               => reconnect'.pc = "delay"
            /\ (reconnect.pc # "start" \/ reconnect.call # i)
               => reconnect' = reconnect]_vars

\* startBot invocation j was called without a userId: with every code
\* request carrying a user, by the restart branch of a close handler.
ByRestart(j) == InFlight(j) /\ calls[j].userId = NoUser

\* C36: under the scheduling of the event loop, the handler of a close
\* that is neither 401 nor normal awaits the delay of the restart branch
\* and calls startBot for its number once the delay has elapsed, and
\* nothing else ends its wait; the startBot it calls
\* returns, at once or after its awaits, and the lock flag of the number
\* is clear when it has returned.
C36_RestartCompletes ==
    /\ \A i \in Slots : (socks[i].restart = "delay") ~> (socks[i].restart = "idle")
    /\ \A j \in Slots : ByRestart(j) ~> ~InFlight(j)
    /\ [][\A i \in Slots :
            LET n == calls[i].number IN
            /\ \A c \in CausesOf("RetryableTransient") :
                  (Closes(i) /\ ConnClose(i, c[1], c[2]))
                  => socks'[i].restart = "delay"
            /\ (socks[i].restart = "delay" /\ socks'[i].restart # "delay")
               => /\ \E j \in Slots : RestartFire(i, j)
                  /\ \/ ~lock'[n]
                     \/ \E j \in Slots : /\ ~InFlight(j)
                                          /\ ByRestart(j)' /\ calls'[j].number = n
            /\ (ByRestart(i) /\ ~InFlight(i)') => ~lock'[n]]_vars

\* The startBot called by a restart has registered its client and has
\* returned, and the lock flag of the number is clear.
C36_Witness ==
    \E j \in Slots :
        /\ calls[j].pc = "done" /\ calls[j].userId = NoUser
        /\ activeSockets[calls[j].number] = j
        /\ ~lock[calls[j].number]
        /\ NoUser \notin env.users

====
